---- MODULE Spec2Model ----
(***************************************************************************)
(* A model of two parts of probe-rs:                                       *)
(*   - the flash builder (probe-rs/src/flash/builder.rs): add_data, the    *)
(*     layout walk build_sectors_and_pages, fill_page, and program() with  *)
(*     its erase and program phases;                                       *)
(*   - the ST-Link probe (probe-rs/src/probe/stlink/mod.rs): session       *)
(*     construction, attach/detach and the DAP register accesses.          *)
(* Specification Spec is the flash builder, SpecSTLink the probe;         *)
(* SpecAddPage is FlashSector::add_page applied on its own, and            *)
(* SpecDoubleBuffer is FlashBuilder::program_double_buffer applied on its  *)
(* own.                                                                    *)
(***************************************************************************)
EXTENDS Integers, Sequences, FiniteSets, TLC

VARIABLES
    \* ---- FlashBuilder (builder.rs:105-109)
    flash_write_data,        \* Vec<FlashWriteData>: sequence of [address, data]
    buffered_data_size,      \* usize
    enable_double_buffering, \* bool
    \* ---- one program() call (builder.rs:174-222)
    pc,          \* position in program(): "idle", "erase", "program", "done", "hang",
                 \* and "load", "wait", "start" in program_double_buffer
    args,        \* the arguments of the running program() call
    sectors,     \* the local `sectors` of program()
    idx,         \* index of the next sector (erase) or page (program)
    calls,       \* the device operations issued so far by the program() call
    ret,         \* the last call that returned: [op, result]
    current_buf, \* the local `current_buf` of program_double_buffer
    \* ---- STLink (stlink/mod.rs:17-25)
    hw_version,
    jtag_version,
    protocol,
    current_ap,
    session,     \* "none" (not constructed), "failed", "open", "dropped"
    usb,         \* the USB commands the last probe operation emitted, in order
    replies,     \* the probe's answer to each command of usb: [usb_ok, b]
    st_ret,      \* the last probe operation that returned:
                 \* [op, port, addr, result, value]
    \* ---- the probe at the other end of the USB link
    open_aps     \* the APs the probe has open

flashVars == <<flash_write_data, buffered_data_size, enable_double_buffering,
               pc, args, sectors, idx, calls, ret, current_buf>>
stlinkVars == <<hw_version, jtag_version, protocol, current_ap, session, usb,
                replies, st_ret, open_aps>>
vars == <<flashVars, stlinkVars>>

(***************************************************************************)
(* Bounds of the model.                                                    *)
(***************************************************************************)
MaxWrites == 2      \* add_data is called while fewer entries are buffered
MaxLen == 3         \* data.len() of one add_data call is 0..MaxLen
MaxAddr == 8        \* address of one add_data call is 0..MaxAddr

(***************************************************************************)
(* The flash region the Flasher reports (crate::config::memory, consumed   *)
(* by the builder through flash.region()): two sectors of two pages.       *)
(* Addresses at or above start + size are in no region.                    *)
(***************************************************************************)
Region == [start |-> 0, size |-> 8, sector_size |-> 4, page_size |-> 2,
           erased_byte_value |-> 255]

NoneVal == [some |-> FALSE]

InRegion(addr) == Region.start <= addr /\ addr < Region.start + Region.size

sector_info(addr) ==
    IF InRegion(addr)
    THEN [some |-> TRUE,
          base_address |-> addr - ((addr - Region.start) % Region.sector_size),
          size |-> Region.sector_size,
          page_size |-> Region.page_size]
    ELSE NoneVal

page_info(addr) ==
    IF InRegion(addr)
    THEN [some |-> TRUE,
          base_address |-> addr - ((addr - Region.start) % Region.page_size),
          size |-> Region.page_size]
    ELSE NoneVal

(***************************************************************************)
(* The caller's byte buffers.  The builder never inspects a byte, so each  *)
(* byte carries a label naming the write (by its address, unique in the    *)
(* list) and its offset; the bytes the device holds are labelled by their  *)
(* address.  All labels are distinct and differ from the erased value.     *)
(***************************************************************************)
ByteOf(a, k) == 16 * (a + 1) + k
DataOf(a, n) == [k \in 1..n |-> ByteOf(a, k - 1)]
DeviceByte(a) == 200 + a

(***************************************************************************)
(* FlashPage, FlashSector                                                  *)
(***************************************************************************)
FlashPage_new(pi) == [address |-> pi.base_address, size |-> pi.size, data |-> <<>>]

FlashSector_new(si) ==
    [address |-> si.base_address, size |-> si.size, page_size |-> si.page_size,
     pages |-> <<>>]

\* pages.sort_by_key(|p| p.address) after a push: a stable insertion of the
\* pushed (last) element into the sorted prefix.
RECURSIVE SortedInsert(_, _)
SortedInsert(ps, p) ==
    IF ps = <<>> THEN <<p>>
    ELSE IF ps[Len(ps)].address <= p.address THEN Append(ps, p)
    ELSE Append(SortedInsert(SubSeq(ps, 1, Len(ps) - 1), p), ps[Len(ps)])

\* A variant of add_page that pushes the page without its two checks
add_page_unchecked(sector, page) ==
    [ok |-> TRUE,
     sector |-> [sector EXCEPT !.pages = SortedInsert(sector.pages, page)]]

\* builder.rs:62-89
add_page(sector, page) ==
    IF sector.page_size # page.size
    THEN [ok |-> FALSE, sector |-> sector]
    ELSE IF Len(sector.pages) < sector.size \div page.size
    THEN [ok |-> TRUE,
          sector |-> [sector EXCEPT !.pages = SortedInsert(sector.pages, page)]]
    ELSE [ok |-> FALSE, sector |-> sector]

\* FlashBuilder::pages: all pages of all sectors, in order.
RECURSIVE pages(_)
pages(ss) == IF ss = <<>> THEN <<>> ELSE ss[1].pages \o pages(Tail(ss))

(***************************************************************************)
(* FlashBuilder::add_data (builder.rs:129-167)                             *)
(***************************************************************************)
\* binary_search_by_key(&address, |v| v.address) over the list, which is kept
\* sorted by address: Ok(_) when an entry has the address ...
Found(ws, address) == \E i \in 1..Len(ws) : ws[i].address = address

\* ... and Err(position) otherwise: the number of entries below the address.
InsertPosition(ws, address) ==
    Cardinality({i \in 1..Len(ws) : ws[i].address < address})

\* A variant of Insert that drops the new entry
InsertNothing(ws, position, w) == ws

\* Vec::insert(position, element)
Insert(ws, position, w) ==
    SubSeq(ws, 1, position) \o <<w>> \o SubSeq(ws, position + 1, Len(ws))

\* A variant of Overlapping that leaves the length of the data out
OverlappingIgnoringLength(previous, operation) ==
    previous.address > operation.address

\* builder.rs:153, the overlap test of two subsequent entries
Overlapping(previous, operation) ==
    previous.address + Len(previous.data) > operation.address

\* builder.rs:150-165, the sweep over the whole list
SweepFindsOverlap(ws) ==
    \E i \in 1..(Len(ws) - 1) : Overlapping(ws[i], ws[i + 1])

FlashWriteData_new(address, data) == [address |-> address, data |-> data]

add_data(address, n) ==
    /\ pc = "idle"
    /\ Len(flash_write_data) < MaxWrites
    /\ LET data == DataOf(address, n)
           position == InsertPosition(flash_write_data, address)
           inserted == Insert(flash_write_data, position,
                              FlashWriteData_new(address, data))
       IN  IF Found(flash_write_data, address)
           THEN /\ ret' = [op |-> "add_data", result |-> "FlashBuilder"]
                /\ UNCHANGED <<flash_write_data, buffered_data_size>>
           ELSE /\ flash_write_data' = inserted
                /\ buffered_data_size' = buffered_data_size + Len(data)
                /\ ret' = [op |-> "add_data",
                           result |-> IF SweepFindsOverlap(inserted)
                                      THEN "FlashBuilder" ELSE "Ok"]
    /\ UNCHANGED <<enable_double_buffering, pc, args, sectors, idx, calls>>
    /\ UNCHANGED current_buf
    /\ UNCHANGED stlinkVars

(***************************************************************************)
(* FlashBuilder::fill_page (builder.rs:348-373).  read_ok tells whether    *)
(* the read_block8 under run_verify succeeds.  The result carries the      *)
(* device operations issued.                                               *)
(***************************************************************************)
fill_page(current_page, restore_unwritten_bytes, read_ok) ==
    LET remaining_bytes == current_page.size - Len(current_page.data)
        address_remaining_start == current_page.address + Len(current_page.data)
        read == [op |-> "read_block8", address |-> address_remaining_start,
                 len |-> remaining_bytes]
    IN  IF Len(current_page.data) # current_page.size
        THEN IF restore_unwritten_bytes
             THEN IF read_ok
                  THEN [ok |-> TRUE,
                        page |-> [current_page EXCEPT !.data = @ \o
                                    [i \in 1..remaining_bytes |->
                                        DeviceByte(address_remaining_start + i - 1)]],
                        reads |-> <<read>>]
                  ELSE [ok |-> FALSE, page |-> current_page, reads |-> <<read>>]
             ELSE [ok |-> TRUE,
                   page |-> [current_page EXCEPT !.data = @ \o
                               [i \in 1..remaining_bytes |-> Region.erased_byte_value]],
                   reads |-> <<>>]
        ELSE [ok |-> TRUE, page |-> current_page, reads |-> <<>>]

(***************************************************************************)
(* FlashBuilder::build_sectors_and_pages (builder.rs:229-341).             *)
(* The walk's state: sectors, the index wi of the current write, pos, the  *)
(* device reads issued (calls) and their number, and the status: "run",    *)
(* a result ("Ok" or an error), or "spin" when an iteration of the while   *)
(* loop changes nothing, so that the loop repeats it forever.              *)
(* fail_read is the number of the read_block8 that fails (0: none does).   *)
(***************************************************************************)
SetLast(seq, x) == [seq EXCEPT ![Len(seq)] = x]

Min(a, b) == IF a <= b THEN a ELSE b

\* builder.rs:242-258 and 308-324: push the sector of flash_address
PushSector(st, flash_address, error) ==
    LET si == sector_info(flash_address)
    IN  IF si.some
        THEN [st EXCEPT !.sectors = Append(@, FlashSector_new(si))]
        ELSE [st EXCEPT !.status = error]

\* builder.rs:265-279 and 293-305: add the page of flash_address to the last sector
PushPage(st, flash_address, error) ==
    LET pi == page_info(flash_address)
        sector == st.sectors[Len(st.sectors)]
        r == add_page(sector, FlashPage_new(pi))
    IN  IF pi.some
        THEN IF r.ok
             THEN [st EXCEPT !.sectors = SetLast(@, r.sector)]
             ELSE [st EXCEPT !.status = "FlashBuilder"]
        ELSE [st EXCEPT !.status = error]

\* fill_page on the last page of the last sector (builder.rs:263, 329-333)
FillLastPage(st, restore_unwritten_bytes, fail_read) ==
    LET sector == st.sectors[Len(st.sectors)]
        page == sector.pages[Len(sector.pages)]
        f == fill_page(page, restore_unwritten_bytes, st.nreads + 1 # fail_read)
    IN  [st EXCEPT !.sectors = SetLast(@, [sector EXCEPT !.pages = SetLast(@, f.page)]),
                   !.calls = @ \o f.reads,
                   !.nreads = @ + Len(f.reads),
                   !.status = IF f.ok THEN @ ELSE "DeviceError"]

\* builder.rs:282-289: copy into the current page
CopyIntoPage(st, op) ==
    LET sector == st.sectors[Len(st.sectors)]
        page == sector.pages[Len(sector.pages)]
        space_left_in_page == page.size - Len(page.data)
        space_left_in_data == Len(op.data) - st.pos
        amount == Min(space_left_in_page, space_left_in_data)
        extended == [page EXCEPT !.data =
                        @ \o SubSeq(op.data, st.pos + 1, st.pos + amount)]
    IN  IF amount = 0
        THEN [st EXCEPT !.status = "spin"]
        ELSE [st EXCEPT !.sectors = SetLast(@, [sector EXCEPT !.pages = SetLast(@, extended)]),
                        !.pos = @ + amount]

\* One iteration of the while loop (builder.rs:237-325)
LayoutStep(st, op, restore_unwritten_bytes, fail_read) ==
    LET flash_address == op.address + st.pos
    IN  IF st.sectors = <<>>
        THEN PushSector(st, flash_address, "FlashBuilder")
        ELSE LET sector == st.sectors[Len(st.sectors)]
             IN  IF flash_address >= sector.address + sector.size
                 THEN PushSector(st, flash_address, "AddressNotInRegion")
                 ELSE IF sector.pages # <<>>
                 THEN LET page == sector.pages[Len(sector.pages)]
                      IN  IF flash_address >= page.address + page.size
                          THEN LET filled == FillLastPage(st, restore_unwritten_bytes,
                                                          fail_read)
                               IN  IF filled.status # "run"
                                   THEN filled
                                   ELSE PushPage(filled, flash_address,
                                                 "AddressNotInRegion")
                          ELSE CopyIntoPage(st, op)
                 ELSE PushPage(st, flash_address, "FlashBuilder")

RECURSIVE Walk(_, _, _, _)
Walk(st, ws, restore_unwritten_bytes, fail_read) ==
    IF st.status # "run"
    THEN st
    ELSE IF st.wi > Len(ws)
    THEN \* builder.rs:328-340
         IF st.sectors # <<>> /\ st.sectors[Len(st.sectors)].pages # <<>>
         THEN LET filled == FillLastPage(st, restore_unwritten_bytes, fail_read)
              IN  [filled EXCEPT !.status = IF @ = "run" THEN "Ok" ELSE @]
         ELSE [st EXCEPT !.status = "Ok"]
    ELSE IF st.pos >= Len(ws[st.wi].data)
    THEN Walk([st EXCEPT !.wi = @ + 1, !.pos = 0], ws, restore_unwritten_bytes,
              fail_read)
    ELSE Walk(LayoutStep(st, ws[st.wi], restore_unwritten_bytes, fail_read), ws,
              restore_unwritten_bytes, fail_read)

build_sectors_and_pages(ws, restore_unwritten_bytes, fail_read) ==
    Walk([sectors |-> <<>>, wi |-> 1, pos |-> 0, calls |-> <<>>, nreads |-> 0,
          status |-> "run"],
         ws, restore_unwritten_bytes, fail_read)

(***************************************************************************)
(* FlashBuilder::program (builder.rs:174-222), one action per device       *)
(* operation.  calls records each operation as [op, address, len]: its     *)
(* name, its address argument and the length of its data argument.         *)
(***************************************************************************)
\* double_buffering_supported is what flash.double_buffering_supported()
\* answers when program() asks (builder.rs:215): "unread" before that, then
\* "supported" or "unsupported".
NoArgs == [do_chip_erase |-> FALSE, restore_unwritten_bytes |-> FALSE,
           has_erase_all |-> FALSE, double_buffering_supported |-> "unread"]

NoRet == [op |-> "none", result |-> "none"]

Answered(supported) == IF supported THEN "supported" ELSE "unsupported"

\* The most read_block8 calls one layout can issue: one for each page.
MaxReads == Region.size \div Region.page_size

Call(op, address, data) == [op |-> op, address |-> address, len |-> Len(data)]

\* A variant of DoChipErase without the downgrade
DoChipEraseNoDowngrade == args.do_chip_erase

\* builder.rs:197-199 and 208: the local do_chip_erase after the downgrade
DoChipErase == args.do_chip_erase /\ args.has_erase_all

\* A variant of UseDoubleBuffer that does not look at the builder's opt-in
UseDoubleBufferWithoutOptIn(supported) == supported

\* builder.rs:215; supported is what flash.double_buffering_supported() answers
UseDoubleBuffer(supported) == supported /\ enable_double_buffering

\* builder.rs:215-219: the loop program() goes on with after the erase, named
\* by the pc of its first step
ProgramLoop(supported) == IF UseDoubleBuffer(supported) THEN "load" ELSE "program"

\* builder.rs:395-399: the sectors sector_erase erases, in order
IsNonEmptySector(sector) == sector.pages # <<>>

RECURSIVE Reverse(_)
Reverse(q) == IF q = <<>> THEN <<>> ELSE Append(Reverse(Tail(q)), Head(q))

\* A variant of EraseTargets that walks the sectors from the last to the first
EraseTargetsReversed(ss) == Reverse(SelectSeq(ss, IsNonEmptySector))

\* A variant of EraseTargets that stops after the first sector
EraseTargetsFirstOnly(ss) == SubSeq(SelectSeq(ss, IsNonEmptySector), 1, 1)

EraseTargets(ss) == SelectSeq(ss, IsNonEmptySector)

\* builder.rs:180-199: the call up to the erase phase.  The layout, with the
\* device reads of fill_page, is one step.
program_begin(do_chip_erase, restore_unwritten_bytes, has_erase_all, fail_read) ==
    /\ pc = "idle"
    /\ args' = [do_chip_erase |-> do_chip_erase,
                restore_unwritten_bytes |-> restore_unwritten_bytes,
                has_erase_all |-> has_erase_all,
                double_buffering_supported |-> "unread"]
    /\ IF flash_write_data = <<>>
       THEN /\ pc' = "done"
            /\ ret' = [op |-> "program", result |-> "Ok"]
            /\ UNCHANGED <<sectors, idx, calls>>
       ELSE LET layout == build_sectors_and_pages(flash_write_data,
                                                  restore_unwritten_bytes, fail_read)
            IN  /\ sectors' = layout.sectors
                /\ calls' = layout.calls
                /\ IF layout.status = "spin"
                   THEN pc' = "hang" /\ UNCHANGED <<ret, idx>>
                   ELSE IF layout.status # "Ok"
                   THEN /\ pc' = "done"
                        /\ ret' = [op |-> "program", result |-> layout.status]
                        /\ UNCHANGED idx
                   ELSE IF layout.sectors = <<>> \/ layout.sectors[1].pages = <<>>
                   THEN /\ pc' = "done"
                        /\ ret' = [op |-> "program", result |-> "Ok"]
                        /\ UNCHANGED idx
                   ELSE /\ pc' = "erase"
                        /\ idx' = 1
                        /\ UNCHANGED ret
    /\ UNCHANGED <<flash_write_data, buffered_data_size, enable_double_buffering>>
    /\ UNCHANGED current_buf
    /\ UNCHANGED stlinkVars

\* builder.rs:376-380: chip_erase; ok tells whether erase_all succeeds
chip_erase(ok, double_buffering_supported) ==
    /\ pc = "erase"
    /\ DoChipErase
    /\ calls' = Append(calls, Call("erase_all", 0, <<>>))
    /\ IF ok
       THEN /\ pc' = ProgramLoop(double_buffering_supported)
            /\ idx' = 1
            /\ args' = [args EXCEPT !.double_buffering_supported =
                                        Answered(double_buffering_supported)]
            /\ UNCHANGED ret
       ELSE /\ pc' = "done"
            /\ ret' = [op |-> "program", result |-> "DeviceError"]
            /\ UNCHANGED <<idx, args>>
    /\ UNCHANGED <<flash_write_data, buffered_data_size, enable_double_buffering,
                   sectors>>
    /\ UNCHANGED current_buf
    /\ UNCHANGED stlinkVars

\* builder.rs:393-404: one erase_sector of sector_erase
sector_erase(ok, double_buffering_supported) ==
    /\ pc = "erase"
    /\ ~DoChipErase
    /\ LET targets == EraseTargets(sectors)
       IN  /\ calls' = Append(calls, Call("erase_sector", targets[idx].address, <<>>))
           /\ IF ~ok
              THEN /\ pc' = "done"
                   /\ ret' = [op |-> "program", result |-> "DeviceError"]
                   /\ UNCHANGED <<idx, args>>
              ELSE IF idx = Len(targets)
              THEN /\ pc' = ProgramLoop(double_buffering_supported)
                   /\ idx' = 1
                   /\ args' = [args EXCEPT !.double_buffering_supported =
                                               Answered(double_buffering_supported)]
                   /\ UNCHANGED ret
              ELSE pc' = "erase" /\ idx' = idx + 1 /\ UNCHANGED <<ret, args>>
    /\ UNCHANGED <<flash_write_data, buffered_data_size, enable_double_buffering,
                   sectors>>
    /\ UNCHANGED current_buf
    /\ UNCHANGED stlinkVars

\* A variant of program_simple that drops the result of program_page
program_simple_unchecked(ok) ==
    /\ pc = "program"
    /\ LET ps == pages(sectors)
           page == ps[idx]
       IN  /\ calls' = Append(calls, Call("program_page", page.address, page.data))
           /\ IF idx = Len(ps)
              THEN /\ pc' = "done"
                   /\ ret' = [op |-> "program", result |-> "Ok"]
                   /\ UNCHANGED idx
              ELSE pc' = "program" /\ idx' = idx + 1 /\ UNCHANGED ret
    /\ UNCHANGED <<flash_write_data, buffered_data_size, enable_double_buffering,
                   args, sectors>>
    /\ UNCHANGED current_buf
    /\ UNCHANGED stlinkVars

\* builder.rs:383-390: one program_page of program_simple
program_simple(ok) ==
    /\ pc = "program"
    /\ LET ps == pages(sectors)
           page == ps[idx]
       IN  /\ calls' = Append(calls, Call("program_page", page.address, page.data))
           /\ IF ~ok
              THEN /\ pc' = "done"
                   /\ ret' = [op |-> "program", result |-> "DeviceError"]
                   /\ UNCHANGED idx
              ELSE IF idx = Len(ps)
              THEN /\ pc' = "done"
                   /\ ret' = [op |-> "program", result |-> "Ok"]
                   /\ UNCHANGED idx
              ELSE pc' = "program" /\ idx' = idx + 1 /\ UNCHANGED ret
    /\ UNCHANGED <<flash_write_data, buffered_data_size, enable_double_buffering,
                   args, sectors>>
    /\ UNCHANGED current_buf
    /\ UNCHANGED stlinkVars

(***************************************************************************)
(* FlashBuilder::program_double_buffer (builder.rs:408-439), one action per *)
(* device operation; its pc is "load", "wait" or "start".  A call of the   *)
(* loop is logged with the buffer it names and, for wait_for_completion,   *)
(* the code it returned (-1: an error).  The result of the function is the *)
(* result of program(), which passes it on (builder.rs:216, 221).          *)
(***************************************************************************)
BufferCall(op, address, data, buf, code) ==
    [op |-> op, address |-> address, len |-> Len(data), buf |-> buf, code |-> code]

\* A variant of WaitSucceeded that takes every returned code for success
WaitSucceededOnAnyCode(result) == result >= 0

\* builder.rs:419-423: if let Ok(0) = result
WaitSucceeded(result) == result = 0

\* A variant of SwapBuffer that keeps the buffer
SwapBufferNever(buf) == buf

\* builder.rs:430-434: swap the buffers
SwapBuffer(buf) == IF buf = 1 THEN 0 ELSE 1

\* builder.rs:412-414: load the next page into the buffer
load_page_buffer(ok) ==
    /\ pc = "load"
    /\ LET page == pages(sectors)[idx]
       IN  calls' = Append(calls, BufferCall("load_page_buffer", page.address,
                                             page.data, current_buf, 0))
    /\ IF ok
       THEN pc' = "wait" /\ UNCHANGED ret
       ELSE pc' = "done" /\ ret' = [op |-> "program", result |-> "DeviceError"]
    /\ UNCHANGED <<flash_write_data, buffered_data_size, enable_double_buffering,
                   args, sectors, idx, current_buf>>
    /\ UNCHANGED stlinkVars

\* builder.rs:418-423: wait for the copy that is running
wait_for_completion(result) ==
    /\ pc = "wait"
    /\ calls' = Append(calls, BufferCall("wait_for_completion", 0, <<>>,
                                         current_buf, result))
    /\ IF WaitSucceeded(result)
       THEN pc' = "start" /\ UNCHANGED ret
       ELSE pc' = "done" /\ ret' = [op |-> "program", result |-> "FlashBuilder"]
    /\ UNCHANGED <<flash_write_data, buffered_data_size, enable_double_buffering,
                   args, sectors, idx, current_buf>>
    /\ UNCHANGED stlinkVars

\* builder.rs:427-437: start the copy of the buffer, then swap the buffers
start_program_page_with_buffer(ok) ==
    /\ pc = "start"
    /\ LET ps == pages(sectors)
           page == ps[idx]
       IN  /\ calls' = Append(calls, BufferCall("start_program_page_with_buffer",
                                                page.address, <<>>, current_buf, 0))
           /\ IF ~ok
              THEN /\ pc' = "done"
                   /\ ret' = [op |-> "program", result |-> "DeviceError"]
                   /\ UNCHANGED <<idx, current_buf>>
              ELSE /\ current_buf' = SwapBuffer(current_buf)
                   /\ IF idx = Len(ps)
                      THEN /\ pc' = "done"
                           /\ ret' = [op |-> "program", result |-> "Ok"]
                           /\ UNCHANGED idx
                      ELSE pc' = "load" /\ idx' = idx + 1 /\ UNCHANGED ret
    /\ UNCHANGED <<flash_write_data, buffered_data_size, enable_double_buffering,
                   args, sectors>>
    /\ UNCHANGED stlinkVars

(***************************************************************************)
(* The flash builder's specification                                       *)
(***************************************************************************)
InitFlash ==
    /\ flash_write_data = <<>>
    /\ buffered_data_size = 0
    /\ enable_double_buffering = FALSE
    /\ pc = "idle"
    /\ args = NoArgs
    /\ sectors = <<>>
    /\ idx = 0
    /\ calls = <<>>
    /\ ret = NoRet
    /\ current_buf = 0

\* Option<u16>
NoAp == [some |-> FALSE, v |-> 0]
SomeAp(n) == [some |-> TRUE, v |-> n]

\* PortType
DebugPort == [kind |-> "DebugPort", n |-> 0]
AccessPort(n) == [kind |-> "AccessPort", n |-> n]

\* Result<u32, _>'s value: the Ok payload of read_register
NoValue == [some |-> FALSE, v |-> 0]
SomeValue(v) == [some |-> TRUE, v |-> v]

NoStRet == [op |-> "none", port |-> DebugPort, addr |-> 0,
            result |-> [kind |-> "none", code |-> 0], value |-> NoValue]

NoSTLink ==
    /\ hw_version = 0
    /\ jtag_version = 0
    /\ protocol = "Swd"
    /\ current_ap = NoAp
    /\ session = "none"
    /\ usb = <<>>
    /\ replies = <<>>
    /\ st_ret = NoStRet
    /\ open_aps = {}

Init == InitFlash /\ NoSTLink

AddData == \E address \in 0..MaxAddr, n \in 0..MaxLen : add_data(address, n)

ProgramBegin ==
    \E do_chip_erase \in BOOLEAN, restore_unwritten_bytes \in BOOLEAN,
       has_erase_all \in BOOLEAN, fail_read \in 0..MaxReads :
        /\ (~restore_unwritten_bytes => fail_read = 0)
        /\ program_begin(do_chip_erase, restore_unwritten_bytes, has_erase_all,
                         fail_read)

ChipErase ==
    \E ok \in BOOLEAN, double_buffering_supported \in BOOLEAN :
        chip_erase(ok, double_buffering_supported)

SectorErase ==
    \E ok \in BOOLEAN, double_buffering_supported \in BOOLEAN :
        sector_erase(ok, double_buffering_supported)

ProgramSimple == \E ok \in BOOLEAN : program_simple(ok)

Next == AddData \/ ProgramBegin \/ ChipErase \/ SectorErase \/ ProgramSimple

Spec == Init /\ [][Next]_vars

(***************************************************************************)
(* Notions the flash builder's properties are stated with                  *)
(***************************************************************************)
StrictlyAscending(ws) ==
    \A i \in 1..(Len(ws) - 1) : ws[i].address < ws[i + 1].address

NonOverlapping(ws) ==
    \A i \in 1..(Len(ws) - 1) : ws[i].address + Len(ws[i].data) <= ws[i + 1].address

ValidWrites(ws) == StrictlyAscending(ws) /\ NonOverlapping(ws)

AllInRegion(ws) ==
    \A i \in 1..Len(ws) : \A k \in 0..(Len(ws[i].data) - 1) :
        InRegion(ws[i].address + k)

\* a write of n bytes at address would share the address of an entry of ws
WouldDuplicate(ws, address) == \E i \in 1..Len(ws) : ws[i].address = address

\* a write of n bytes at address would overlap an entry of ws: both hold a
\* byte, and the one that starts lower ends above the start of the other
WouldOverlap(ws, address, n) ==
    \E i \in 1..Len(ws) :
        /\ n > 0
        /\ Len(ws[i].data) > 0
        /\ \/ ws[i].address < address /\ ws[i].address + Len(ws[i].data) > address
           \/ address < ws[i].address /\ address + n > ws[i].address

\* program() has built its layout and gone on to the erase and program phases
LayoutBuilt == pc \in {"erase", "program"}

LaidOutPages == pages(sectors)

PagesContaining(addr) ==
    {j \in 1..Len(LaidOutPages) :
        /\ LaidOutPages[j].address <= addr
        /\ addr < LaidOutPages[j].address + LaidOutPages[j].size}

\* the places (page, index) of the layout that hold byte b
PlacesOf(b) ==
    {pl \in UNION {{<<j, m>> : m \in 1..Len(LaidOutPages[j].data)} :
                        j \in 1..Len(LaidOutPages)} :
        LaidOutPages[pl[1]].data[pl[2]] = b}

CoveredByWrite(addr) ==
    \E i \in 1..Len(flash_write_data) :
        /\ flash_write_data[i].address <= addr
        /\ addr < flash_write_data[i].address + Len(flash_write_data[i].data)

IsEraseSector(c) == c.op = "erase_sector"
IsEraseAll(c) == c.op = "erase_all"
IsPageHandOver(c) == c.op \in {"program_page", "load_page_buffer"}

AddressesOf(cs) == [i \in 1..Len(cs) |-> cs[i].address]

ErasedSectors == AddressesOf(SelectSeq(calls, IsEraseSector))

HasPages(sector) == Len(sector.pages) >= 1

SectorsWithPages == AddressesOf(SelectSeq(sectors, HasPages))

IsPrefix(p, q) == Len(p) <= Len(q) /\ SubSeq(q, 1, Len(p)) = p

ProgramReturnedOk == pc = "done" /\ ret = [op |-> "program", result |-> "Ok"]

(***************************************************************************)
(* Properties                                                              *)
(***************************************************************************)

\* C1: after add_data calls that all returned success the writes are strictly
\* ascending by address and consecutive entries do not overlap (they may be
\* adjacent).  Stated as the step that carries the property along a sequence
\* of successful calls: the new builder starts with no writes, and an add_data
\* call that returns success on sorted, non-overlapping writes leaves them
\* sorted and non-overlapping.
C1_SuccessfulAddDataKeepsWritesSortedAndDisjoint ==
    [][\A address \in 0..MaxAddr, n \in 0..MaxLen :
          (/\ ValidWrites(flash_write_data)
           /\ add_data(address, n)
           /\ ret'.result = "Ok")
          => ValidWrites(flash_write_data')]_vars

C1_Witness_AdjacentWritesAccepted ==
    /\ ret = [op |-> "add_data", result |-> "Ok"]
    /\ Len(flash_write_data) = 2
    /\ Len(flash_write_data[1].data) > 0
    /\ flash_write_data[1].address + Len(flash_write_data[1].data)
           = flash_write_data[2].address

\* C2: an add_data call that would create a duplicate address or an overlap
\* returns the FlashBuilder error and leaves the writes list and the buffered
\* size as they were.
C2_RejectedAddDataLeavesBuilderUnchanged ==
    [][\A address \in 0..MaxAddr, n \in 0..MaxLen :
          (/\ add_data(address, n)
           /\ \/ WouldDuplicate(flash_write_data, address)
              \/ WouldOverlap(flash_write_data, address, n))
          => /\ ret'.result = "FlashBuilder"
             /\ flash_write_data' = flash_write_data
             /\ buffered_data_size' = buffered_data_size]_vars

\* C3: in every reachable state, also after add_data calls that returned an
\* error, consecutive writes do not overlap.
C3_WritesNeverOverlap == NonOverlapping(flash_write_data)

\* C4: for valid writes, every page handed to the device (program_page or
\* load_page_buffer) has len(data) = size.
C4_EveryProgrammedPageIsFull ==
    ValidWrites(flash_write_data) =>
        \A i \in 1..Len(calls) :
            IsPageHandOver(calls[i]) => calls[i].len = Region.page_size

\* C5: after the layout of valid, in-region writes every byte of every write
\* is stored exactly once, at index (its address - page.address) of the page
\* that contains its address.
C5_LayoutStoresEveryByteAtItsAddress ==
    (LayoutBuilt /\ ValidWrites(flash_write_data) /\ AllInRegion(flash_write_data)) =>
        \A i \in 1..Len(flash_write_data) :
            \A k \in 0..(Len(flash_write_data[i].data) - 1) :
                LET addr == flash_write_data[i].address + k
                    b == flash_write_data[i].data[k + 1]
                IN  /\ Cardinality(PagesContaining(addr)) = 1
                    /\ PlacesOf(b) =
                         {<<j, addr - LaidOutPages[j].address + 1>> :
                              j \in PagesContaining(addr)}

\* C6: a single write that crosses a sector boundary is laid out with one
\* sector for each geometry sector that holds a written address, each byte in
\* the sector that holds its address; in sector-erase mode each of these
\* sectors is erased before programming.
C6_CrossSectorWriteIsSplitAtTheBoundary ==
    (/\ LayoutBuilt
     /\ Len(flash_write_data) = 1
     /\ AllInRegion(flash_write_data)
     /\ Len(flash_write_data[1].data) > 0
     /\ sector_info(flash_write_data[1].address).base_address
          # sector_info(flash_write_data[1].address
                          + Len(flash_write_data[1].data) - 1).base_address)
    => LET w == flash_write_data[1]
           written == {sector_info(w.address + k).base_address :
                           k \in 0..(Len(w.data) - 1)}
       IN  /\ {sectors[s].address : s \in 1..Len(sectors)} = written
           /\ \A k \in 0..(Len(w.data) - 1) :
                \E s \in 1..Len(sectors) :
                    /\ sectors[s].address = sector_info(w.address + k).base_address
                    /\ \E j \in 1..Len(sectors[s].pages) :
                         \E m \in 1..Len(sectors[s].pages[j].data) :
                            sectors[s].pages[j].data[m] = w.data[k + 1]
           /\ (pc = "program" /\ ~DoChipErase) =>
                {ErasedSectors[e] : e \in 1..Len(ErasedSectors)} = written

\* C7: in every page of the layout each byte position no write covers holds
\* erased_byte_value without restore_unwritten_bytes and the device's byte of
\* that address with it.
C7_UnwrittenPositionsHoldFillBytes ==
    (LayoutBuilt /\ ValidWrites(flash_write_data) /\ AllInRegion(flash_write_data)) =>
        \A j \in 1..Len(LaidOutPages) :
            \A m \in 0..(LaidOutPages[j].size - 1) :
                LET addr == LaidOutPages[j].address + m
                IN  ~CoveredByWrite(addr) =>
                        /\ m + 1 <= Len(LaidOutPages[j].data)
                        /\ LaidOutPages[j].data[m + 1] =
                             IF args.restore_unwritten_bytes
                             THEN DeviceByte(addr)
                             ELSE Region.erased_byte_value

\* C8: in sector-erase mode program() calls erase_sector once for each laid-out
\* sector with a page, in ascending address order, for no other address, and
\* never calls erase_all: the erase_sector calls made so far are always a
\* prefix of the ascending list of the sectors with pages, and are that whole
\* list once the erase phase is over.
C8_SectorEraseErasesExactlyTheSectorsWithPages ==
    ~DoChipErase =>
        /\ IsPrefix(ErasedSectors, SectorsWithPages)
        /\ \A i \in 1..(Len(SectorsWithPages) - 1) :
                SectorsWithPages[i] < SectorsWithPages[i + 1]
        /\ SelectSeq(calls, IsEraseAll) = <<>>
        /\ (pc = "program" \/ ProgramReturnedOk) => ErasedSectors = SectorsWithPages

C8_Witness_TwoSectorsErasedInOrder ==
    /\ pc = "program"
    /\ ~DoChipErase
    /\ Len(SectorsWithPages) = 2
    /\ ErasedSectors = SectorsWithPages

\* C9 as claimed: program() calls erase_all if and only if do_chip_erase was
\* passed and the algorithm has an erase-all entry point.
C9_EraseAllIffRequestedAndSupported ==
    ProgramReturnedOk =>
        (SelectSeq(calls, IsEraseAll) # <<>>
            <=> (args.do_chip_erase /\ args.has_erase_all))

\* C9 as amended: erase_all is called only if do_chip_erase was passed and the
\* algorithm has an erase-all entry point, and never twice; a program() call
\* that reaches its erase step (the layout succeeded and has a page) and gets
\* through it calls erase_all exactly once and erase_sector never when both
\* hold, and otherwise (also when do_chip_erase was passed and the entry point
\* is absent) calls no erase_all and erase_sector for each sector with pages.
C9_EraseAllIffRequestedSupportedAndEraseStepReached ==
    /\ SelectSeq(calls, IsEraseAll) # <<>> => (args.do_chip_erase /\ args.has_erase_all)
    /\ Len(SelectSeq(calls, IsEraseAll)) <= 1
    /\ (pc = "program" \/ (ProgramReturnedOk /\ sectors # <<>>)) =>
          IF args.do_chip_erase /\ args.has_erase_all
          THEN Len(SelectSeq(calls, IsEraseAll)) = 1 /\ ErasedSectors = <<>>
          ELSE SelectSeq(calls, IsEraseAll) = <<>> /\ ErasedSectors = SectorsWithPages
    /\ (ProgramReturnedOk /\ sectors = <<>>) =>
          SelectSeq(calls, IsEraseAll) = <<>> /\ ErasedSectors = <<>>

C9_Witness_ChipEraseDowngraded ==
    /\ ProgramReturnedOk
    /\ args.do_chip_erase
    /\ ~args.has_erase_all
    /\ Len(ErasedSectors) >= 1
    /\ SelectSeq(calls, IsEraseAll) = <<>>

(***************************************************************************)
(* The ST-Link probe (stlink/mod.rs).                                      *)
(*                                                                         *)
(* A response of the device to one command is [usb_ok, b]: whether the USB *)
(* transfer succeeded, and the part of the answer the code looks at (the   *)
(* status byte, the mode byte, the version word, byte 2 of the extended    *)
(* version, the first word of the voltage).  An operation's outcome is     *)
(* [cmds, result, ...]: the commands it emitted, in order, and its result  *)
(* [kind, code].                                                           *)
(***************************************************************************)
JtagOk == 128
MIN_JTAG_VERSION == 24
MIN_JTAG_VERSION_MULTI_AP == 28

Res(kind) == [kind |-> kind, code |-> 0]
Ok == Res("Ok")
CommandFailed(b) == [kind |-> "CommandFailed", code |-> b]

UsbFailure == [usb_ok |-> FALSE, b |-> 0]
Answer(b) == [usb_ok |-> TRUE, b |-> b]

StatusResps == {Answer(JtagOk), Answer(16), UsbFailure}
ModeResps == {Answer(0), Answer(1), Answer(2), Answer(3), Answer(4), UsbFailure}
XferResps == {Answer(0), UsbFailure}
VersionResps ==
    {Answer(hw * 4096 + jtag * 64 + 7) : hw \in {2, 3}, jtag \in {0, 23, 24, 28}}
        \cup {UsbFailure}
VersionExtResps == {Answer(0), Answer(5), UsbFailure}
VoltageResps == {Answer(0), Answer(1), UsbFailure}

Ports == {DebugPort, AccessPort(0), AccessPort(1)}
Addrs == {4, 16, 260}
Values == {16909060}
\* bytes 4..8 of the answer to JTAG_READ_DAP_REG
DataBytes == {<<120, 86, 52, 18>>}

\* x & 0xf0
AndF0(x) == ((x \div 16) % 16) * 16

\* x as u8
AsU8(x) == x % 256

\* PortType -> u16
PortValue(port) == IF port.kind = "DebugPort" THEN 65535 ELSE port.n

\* stlink/mod.rs:159: (&buf[4..8]).pread(0), a little-endian u32
pread_u32(d) == d[1] + 256 * d[2] + 65536 * d[3] + 16777216 * d[4]

\* A variant of check_status that accepts every status byte
check_status_accepting_all(b) == Ok

\* stlink/mod.rs:478-486
check_status(b) == IF b # JtagOk THEN CommandFailed(b) ELSE Ok

\* device.write(cmd, ..) followed by check_status(&buf)
StatusCommand(cmd, r) ==
    [cmds |-> <<cmd>>, replies |-> <<r>>,
     result |-> IF ~r.usb_ok THEN Res("USB") ELSE check_status(r.b)]

\* stlink/mod.rs:257-276
get_current_mode(r) ==
    [cmds |-> << <<"GET_CURRENT_MODE">> >>, replies |-> <<r>>,
     result |-> IF ~r.usb_ok THEN Res("USB")
                ELSE IF r.b \in 0..3 THEN Ok ELSE Res("UnknownMode"),
     mode |-> r.b]

\* A variant of enter_idle that leaves the probe in the mode it is in
enter_idle_without_exit(r_mode, r_exit) ==
    LET m == get_current_mode(r_mode)
    IN  [cmds |-> m.cmds, replies |-> m.replies, result |-> m.result]

\* stlink/mod.rs:280-298
enter_idle(r_mode, r_exit) ==
    LET m == get_current_mode(r_mode)
        exit(cmd) == [cmds |-> m.cmds \o <<cmd>>, replies |-> m.replies \o <<r_exit>>,
                      result |-> IF r_exit.usb_ok THEN Ok ELSE Res("USB")]
    IN  IF m.result # Ok
        THEN [cmds |-> m.cmds, replies |-> m.replies, result |-> m.result]
        ELSE IF m.mode = 0 THEN exit(<<"DFU_COMMAND", "DFU_EXIT">>)
        ELSE IF m.mode = 3 THEN exit(<<"SWIM_COMMAND", "SWIM_EXIT">>)
        ELSE [cmds |-> m.cmds, replies |-> m.replies, result |-> Ok]

\* A variant of FirmwareOutdated that also rejects the minimum version
FirmwareOutdatedInclusive(hw, jtag) == hw < 3 /\ jtag <= MIN_JTAG_VERSION

\* stlink/mod.rs:356
FirmwareOutdated(hw, jtag) == hw < 3 /\ jtag < MIN_JTAG_VERSION

\* stlink/mod.rs:303-361
get_version(r_version, r_ext) ==
    LET hw == ((r_version.b \div 4096) % 256) % 16
        jtag0 == ((r_version.b \div 64) % 256) % 64
        first == << <<"GET_VERSION">> >>
        both == << <<"GET_VERSION">>, <<"GET_VERSION_EXT">> >>
        check(cmds, rs, jtag) ==
            [cmds |-> cmds, replies |-> rs, hw_version |-> hw, jtag_version |-> jtag,
             result |-> IF jtag = 0 THEN Res("JTAGNotSupportedOnProbe")
                        ELSE IF FirmwareOutdated(hw, jtag)
                        THEN Res("ProbeFirmwareOutdated")
                        ELSE Ok]
    IN  IF ~r_version.usb_ok
        THEN [cmds |-> first, replies |-> <<r_version>>,
              hw_version |-> 0, jtag_version |-> 0, result |-> Res("USB")]
        ELSE IF hw >= 3
        THEN IF ~r_ext.usb_ok
             THEN [cmds |-> both, replies |-> <<r_version, r_ext>>,
                   hw_version |-> hw, jtag_version |-> jtag0, result |-> Res("USB")]
             ELSE check(both, <<r_version, r_ext>>, r_ext.b)
        ELSE check(first, <<r_version>>, jtag0)

\* stlink/mod.rs:235-254; r.b is a0
get_target_voltage(r) ==
    [cmds |-> << <<"GET_TARGET_VOLTAGE">> >>, replies |-> <<r>>,
     result |-> IF ~r.usb_ok THEN Res("USB")
                ELSE IF r.b # 0 THEN Ok ELSE Res("VoltageDivisionByZero")]

\* stlink/mod.rs:372: device.reset(), logged as the command <<"reset">>
reset(reset_ok) ==
    [cmds |-> << <<"reset">> >>, replies |-> << [usb_ok |-> reset_ok, b |-> 0] >>,
     result |-> IF reset_ok THEN Ok ELSE Res("USB")]

\* A variant of IsUsbError that takes every error for a USB error
IsAnyError(e) == TRUE

\* stlink/mod.rs:369-370: the error init answers with a reset and a retry
IsUsbError(e) == e.kind = "USB"

\* stlink/mod.rs:365-384
init(r_mode1, r_exit1, reset_ok, r_mode2, r_exit2, r_version, r_ext, r_voltage) ==
    LET e1 == enter_idle(r_mode1, r_exit1)
        rs == reset(reset_ok)
        e2 == enter_idle(r_mode2, r_exit2)
        v == get_version(r_version, r_ext)
        t == get_target_voltage(r_voltage)
        failed(cmds, rp, result) ==
            [cmds |-> cmds, replies |-> rp, result |-> result,
             hw_version |-> 0, jtag_version |-> 0]
        rest(cmds, rp) ==
            IF v.result # Ok
            THEN [cmds |-> cmds \o v.cmds, replies |-> rp \o v.replies,
                  result |-> v.result,
                  hw_version |-> v.hw_version, jtag_version |-> v.jtag_version]
            ELSE [cmds |-> cmds \o v.cmds \o t.cmds,
                  replies |-> rp \o v.replies \o t.replies, result |-> t.result,
                  hw_version |-> v.hw_version, jtag_version |-> v.jtag_version]
    IN  IF e1.result # Ok
        THEN IF IsUsbError(e1.result)
             THEN IF rs.result # Ok
                  THEN failed(e1.cmds \o rs.cmds, e1.replies \o rs.replies, rs.result)
                  ELSE IF e2.result # Ok
                  THEN failed(e1.cmds \o rs.cmds \o e2.cmds,
                              e1.replies \o rs.replies \o e2.replies, e2.result)
                  ELSE rest(e1.cmds \o rs.cmds \o e2.cmds,
                            e1.replies \o rs.replies \o e2.replies)
             ELSE failed(e1.cmds, e1.replies, e1.result)
        ELSE rest(e1.cmds, e1.replies)

\* A variant of NoMultiApSupport that takes every probe to support multi-AP
NoMultiApSupportNever == FALSE

\* stlink/mod.rs:425 and 441: no multi-AP support on this probe
NoMultiApSupport == hw_version < 3 /\ jtag_version < MIN_JTAG_VERSION_MULTI_AP

\* stlink/mod.rs:424-438
open_ap(apsel, r) ==
    IF NoMultiApSupport
    THEN [cmds |-> <<>>, replies |-> <<>>,
          result |-> Res("JTagDoesNotSupportMultipleAP")]
    ELSE StatusCommand(<<"JTAG_COMMAND", "JTAG_INIT_AP", apsel>>, r)

\* A variant of close_ap that leaves the old AP as it is
close_ap_skipped(apsel, r) == [cmds |-> <<>>, replies |-> <<>>, result |-> Ok]

\* stlink/mod.rs:440-454
close_ap(apsel, r) ==
    IF NoMultiApSupport
    THEN [cmds |-> <<>>, replies |-> <<>>,
          result |-> Res("JTagDoesNotSupportMultipleAP")]
    ELSE StatusCommand(<<"JTAG_COMMAND", "JTAG_CLOSE_AP_DBG", apsel>>, r)

\* stlink/mod.rs:131-143 and 173-185: make the port's AP the open one
SelectAp(port, r_close, r_open) ==
    LET c == close_ap(AsU8(current_ap.v), r_close)
        o == open_ap(AsU8(port.n), r_open)
        keep(cmds, rp, result) ==
            [cmds |-> cmds, replies |-> rp, result |-> result,
             current_ap |-> current_ap]
    IN  IF port.kind = "AccessPort"
        THEN IF current_ap.some
             THEN IF current_ap.v # port.n
                  THEN IF c.result # Ok THEN keep(c.cmds, c.replies, c.result)
                       ELSE IF o.result # Ok
                       THEN keep(c.cmds \o o.cmds, c.replies \o o.replies, o.result)
                       ELSE [cmds |-> c.cmds \o o.cmds,
                             replies |-> c.replies \o o.replies, result |-> Ok,
                             current_ap |-> SomeAp(port.n)]
                  ELSE [cmds |-> <<>>, replies |-> <<>>, result |-> Ok,
                        current_ap |-> SomeAp(port.n)]
             ELSE IF o.result # Ok THEN keep(o.cmds, o.replies, o.result)
                  ELSE [cmds |-> o.cmds, replies |-> o.replies, result |-> Ok,
                        current_ap |-> SomeAp(port.n)]
        ELSE keep(<<>>, <<>>, Ok)

\* A variant of AccessAllowed with the test of the address turned around
AccessAllowedInverted(port, addr) == AndF0(addr) # 0 \/ port # DebugPort

\* stlink/mod.rs:130 and 172: the test that lets the access through
AccessAllowed(port, addr) == AndF0(addr) = 0 \/ port # DebugPort

\* stlink/mod.rs:129-163 (read) and 166-208 (write): cmd is the DAP command
DapAccess(port, addr, cmd, r_close, r_open, r_dap) ==
    IF AccessAllowed(port, addr)
    THEN LET sel == SelectAp(port, r_close, r_open)
             t == StatusCommand(cmd, r_dap)
         IN  IF sel.result # Ok
             THEN sel
             ELSE [cmds |-> sel.cmds \o t.cmds, replies |-> sel.replies \o t.replies,
                   result |-> t.result, current_ap |-> sel.current_ap]
    ELSE [cmds |-> <<>>, replies |-> <<>>,
          result |-> Res("BlanksNotAllowedOnDPRegister"), current_ap |-> current_ap]

ReadCommand(port, addr) ==
    <<"JTAG_COMMAND", "JTAG_READ_DAP_REG",
      PortValue(port) % 256, (PortValue(port) \div 256) % 256,
      addr % 256, (addr \div 256) % 256>>

WriteCommand(port, addr, value) ==
    <<"JTAG_COMMAND", "JTAG_WRITE_DAP_REG",
      PortValue(port) % 256, (PortValue(port) \div 256) % 256,
      addr % 256, (addr \div 256) % 256,
      value % 256, (value \div 256) % 256,
      (value \div 65536) % 256, (value \div 16777216) % 256>>

(***************************************************************************)
(* The probe's operations                                                  *)
(***************************************************************************)
StRet(op, port, addr, result) ==
    [op |-> op, port |-> port, addr |-> addr, result |-> result, value |-> NoValue]

\* The probe's side of JTAG_INIT_AP and JTAG_CLOSE_AP_DBG: a command that was
\* answered with JtagOk opens, or closes, the AP it names.  No other command
\* changes the APs the probe has open.
ProbeCommand(open, cmd, r) ==
    IF r.usb_ok /\ r.b = JtagOk /\ Len(cmd) = 3 /\ cmd[2] = "JTAG_INIT_AP"
    THEN open \cup {cmd[3]}
    ELSE IF r.usb_ok /\ r.b = JtagOk /\ Len(cmd) = 3 /\ cmd[2] = "JTAG_CLOSE_AP_DBG"
    THEN open \ {cmd[3]}
    ELSE open

RECURSIVE ProbeAfter(_, _, _)
ProbeAfter(open, cmds, rs) ==
    IF cmds = <<>> THEN open
    ELSE ProbeAfter(ProbeCommand(open, Head(cmds), Head(rs)), Tail(cmds), Tail(rs))

\* stlink/mod.rs:28-41.  When init fails, the half-built STLink is dropped
\* before the error reaches the caller, and Drop (211-216) runs enter_idle,
\* answered by r_drop_mode and r_drop_exit, and ignores its result.
new_from_probe_info(device_ok, r_mode1, r_exit1, reset_ok, r_mode2, r_exit2, r_version, r_ext, r_voltage, r_drop_mode, r_drop_exit) ==
    /\ session = "none"
    /\ protocol' = "Swd"
    /\ current_ap' = NoAp
    /\ IF ~device_ok
       THEN /\ session' = "failed"
            /\ usb' = <<>>
            /\ replies' = <<>>
            /\ st_ret' = StRet("new_from_probe_info", DebugPort, 0, Res("USB"))
            /\ UNCHANGED <<hw_version, jtag_version>>
       ELSE LET i == init(r_mode1, r_exit1, reset_ok, r_mode2, r_exit2, r_version,
                          r_ext, r_voltage)
                e == enter_idle(r_drop_mode, r_drop_exit)
            IN  /\ hw_version' = i.hw_version
                /\ jtag_version' = i.jtag_version
                /\ st_ret' = StRet("new_from_probe_info", DebugPort, 0, i.result)
                /\ IF i.result = Ok
                   THEN /\ session' = "open"
                        /\ usb' = i.cmds
                        /\ replies' = i.replies
                   ELSE /\ session' = "failed"
                        /\ usb' = i.cmds \o e.cmds
                        /\ replies' = i.replies \o e.replies
    /\ UNCHANGED open_aps
    /\ UNCHANGED flashVars

\* stlink/mod.rs:211-216: Drop runs enter_idle and ignores its result.  It
\* ends a session.
drop(r_mode, r_exit) ==
    /\ session = "open"
    /\ LET e == enter_idle(r_mode, r_exit)
       IN  /\ session' = "dropped"
           /\ usb' = e.cmds
           /\ replies' = e.replies
           /\ st_ret' = StRet("drop", DebugPort, 0, Ok)
    /\ UNCHANGED <<hw_version, jtag_version, protocol, current_ap, open_aps>>
    /\ UNCHANGED flashVars

\* A variant of EnterParam that enters SWD whatever the protocol
EnterParamAlwaysSwd == "JTAG_ENTER_SWD"

\* stlink/mod.rs:52-61
EnterParam == IF protocol = "Jtag" THEN "JTAG_ENTER_JTAG_NO_CORE_RESET"
              ELSE "JTAG_ENTER_SWD"

\* stlink/mod.rs:48-73
attach(r_mode, r_exit, r_status) ==
    /\ session = "open"
    /\ LET e == enter_idle(r_mode, r_exit)
           t == StatusCommand(<<"JTAG_COMMAND", "JTAG_ENTER2", EnterParam, 0>>,
                              r_status)
       IN  IF e.result # Ok
           THEN /\ usb' = e.cmds
                /\ replies' = e.replies
                /\ st_ret' = StRet("attach", DebugPort, 0, e.result)
           ELSE /\ usb' = e.cmds \o t.cmds
                /\ replies' = e.replies \o t.replies
                /\ st_ret' = StRet("attach", DebugPort, 0, t.result)
    /\ UNCHANGED <<hw_version, jtag_version, protocol, current_ap, session, open_aps>>
    /\ UNCHANGED flashVars

\* stlink/mod.rs:76-79
detach(r_mode, r_exit) ==
    /\ session = "open"
    /\ LET e == enter_idle(r_mode, r_exit)
       IN  /\ usb' = e.cmds
           /\ replies' = e.replies
           /\ st_ret' = StRet("detach", DebugPort, 0, e.result)
    /\ UNCHANGED <<hw_version, jtag_version, protocol, current_ap, session, open_aps>>
    /\ UNCHANGED flashVars

\* stlink/mod.rs:98-104
select_protocol(p) ==
    /\ session = "open"
    /\ protocol' = p
    /\ usb' = <<>>
    /\ replies' = <<>>
    /\ st_ret' = StRet("select_protocol", DebugPort, 0, Ok)
    /\ UNCHANGED <<hw_version, jtag_version, current_ap, session, open_aps>>
    /\ UNCHANGED flashVars

\* stlink/mod.rs:129-163; data is buf[4..8] of the answer
read_register(port, addr, r_close, r_open, r_dap, data) ==
    /\ session = "open"
    /\ LET a == DapAccess(port, addr, ReadCommand(port, addr), r_close, r_open, r_dap)
       IN  /\ current_ap' = a.current_ap
           /\ usb' = a.cmds
           /\ replies' = a.replies
           /\ st_ret' = [StRet("read_register", port, addr, a.result) EXCEPT
                           !.value = IF a.result = Ok
                                     THEN SomeValue(pread_u32(data)) ELSE NoValue]
           /\ open_aps' = ProbeAfter(open_aps, a.cmds, a.replies)
    /\ UNCHANGED <<hw_version, jtag_version, protocol, session>>
    /\ UNCHANGED flashVars

\* stlink/mod.rs:166-208
write_register(port, addr, value, r_close, r_open, r_dap) ==
    /\ session = "open"
    /\ LET a == DapAccess(port, addr, WriteCommand(port, addr, value), r_close,
                          r_open, r_dap)
       IN  /\ current_ap' = a.current_ap
           /\ usb' = a.cmds
           /\ replies' = a.replies
           /\ st_ret' = StRet("write_register", port, addr, a.result)
           /\ open_aps' = ProbeAfter(open_aps, a.cmds, a.replies)
    /\ UNCHANGED <<hw_version, jtag_version, protocol, session>>
    /\ UNCHANGED flashVars

\* An operation that is one status-bearing command: op names it, t is the
\* outcome of the command
StatusOperation(op, t) ==
    /\ session = "open"
    /\ usb' = t.cmds
    /\ replies' = t.replies
    /\ st_ret' = StRet(op, DebugPort, 0, t.result)
    /\ open_aps' = ProbeAfter(open_aps, t.cmds, t.replies)
    /\ UNCHANGED <<hw_version, jtag_version, protocol, current_ap, session>>
    /\ UNCHANGED flashVars

\* stlink/mod.rs:235-254 called on an open session
call_get_target_voltage(r) ==
    StatusOperation("get_target_voltage", get_target_voltage(r))

\* stlink/mod.rs:82-96
target_reset(r) ==
    StatusOperation("target_reset",
        StatusCommand(<<"JTAG_COMMAND", "JTAG_DRIVE_NRST", "JTAG_DRIVE_NRST_PULSE">>, r))

\* stlink/mod.rs:458-472
drive_nreset(is_asserted, r) ==
    StatusOperation("drive_nreset",
        StatusCommand(<<"JTAG_COMMAND", "JTAG_DRIVE_NRST",
                        IF is_asserted THEN "JTAG_DRIVE_NRST_LOW"
                        ELSE "JTAG_DRIVE_NRST_HIGH">>, r))

\* stlink/mod.rs:387-403
set_swd_frequency(frequency, r) ==
    StatusOperation("set_swd_frequency",
        StatusCommand(<<"JTAG_COMMAND", "SWD_SET_FREQ", AsU8(frequency)>>, r))

\* stlink/mod.rs:406-422
set_jtag_frequency(frequency, r) ==
    StatusOperation("set_jtag_frequency",
        StatusCommand(<<"JTAG_COMMAND", "JTAG_SET_FREQ", AsU8(frequency)>>, r))

\* stlink/mod.rs:424-438, called from outside the probe (pub fn)
call_open_ap(apsel, r) == StatusOperation("open_ap", open_ap(apsel, r))

\* stlink/mod.rs:440-454, called from outside the probe (pub fn)
call_close_ap(apsel, r) == StatusOperation("close_ap", close_ap(apsel, r))

\* The answers new_from_probe_info draws.  An answer the call never reads (the
\* retry's when the first enter_idle did not fail on USB, Drop's when init
\* succeeded, every one when the device could not be opened) is pinned to one
\* value.
NewFromProbeInfo ==
    /\ session = "none"
    /\ \E device_ok \in BOOLEAN :
        \E r_mode1 \in IF device_ok THEN ModeResps ELSE {UsbFailure},
           r_exit1 \in IF device_ok THEN XferResps ELSE {UsbFailure} :
         LET retried == device_ok /\ enter_idle(r_mode1, r_exit1).result.kind = "USB"
         IN  \E reset_ok \in IF retried THEN BOOLEAN ELSE {TRUE},
                r_mode2 \in IF retried THEN ModeResps ELSE {UsbFailure},
                r_exit2 \in IF retried THEN XferResps ELSE {UsbFailure},
                r_version \in IF device_ok THEN VersionResps ELSE {UsbFailure},
                r_ext \in IF device_ok THEN VersionExtResps ELSE {UsbFailure},
                r_voltage \in IF device_ok THEN VoltageResps ELSE {UsbFailure} :
             LET dropped == device_ok /\ init(r_mode1, r_exit1, reset_ok, r_mode2, r_exit2,
                                              r_version, r_ext, r_voltage).result # Ok
             IN  \E r_drop_mode \in IF dropped THEN ModeResps ELSE {UsbFailure},
                    r_drop_exit \in IF dropped THEN XferResps ELSE {UsbFailure} :
                     new_from_probe_info(device_ok, r_mode1, r_exit1, reset_ok,
                                         r_mode2, r_exit2, r_version, r_ext,
                                         r_voltage, r_drop_mode, r_drop_exit)

Drop == \E r_mode \in ModeResps, r_exit \in XferResps : drop(r_mode, r_exit)

Attach ==
    \E r_mode \in ModeResps, r_exit \in XferResps, r_status \in StatusResps :
        attach(r_mode, r_exit, r_status)

Detach == \E r_mode \in ModeResps, r_exit \in XferResps : detach(r_mode, r_exit)

SelectProtocol == \E p \in {"Swd", "Jtag"} : select_protocol(p)

\* The answers a DAP access draws for close_ap and open_ap: an answer the
\* access never reads is pinned to one value.
CloseResps(port) ==
    IF port.kind = "AccessPort" /\ current_ap.some /\ current_ap.v # port.n
           /\ ~NoMultiApSupport
    THEN StatusResps ELSE {UsbFailure}

OpenResps(port) ==
    IF port.kind = "AccessPort" /\ current_ap # SomeAp(port.n) /\ ~NoMultiApSupport
    THEN StatusResps ELSE {UsbFailure}

ReadRegister ==
    /\ session = "open"
    /\ \E port \in Ports, addr \in Addrs, data \in DataBytes :
        \E r_close \in CloseResps(port), r_open \in OpenResps(port),
           r_dap \in StatusResps :
            read_register(port, addr, r_close, r_open, r_dap, data)

WriteRegister ==
    /\ session = "open"
    /\ \E port \in Ports, addr \in Addrs, value \in Values :
        \E r_close \in CloseResps(port), r_open \in OpenResps(port),
           r_dap \in StatusResps :
            write_register(port, addr, value, r_close, r_open, r_dap)

TargetReset == \E r \in StatusResps : target_reset(r)

GetTargetVoltage == \E r \in VoltageResps : call_get_target_voltage(r)

DriveNreset == \E is_asserted \in BOOLEAN, r \in StatusResps : drive_nreset(is_asserted, r)

\* SwdFrequencyToDelayCount and JTagFrequencyToDivider as u8
Frequencies == {1, 7}

SetSwdFrequency == \E f \in Frequencies, r \in StatusResps : set_swd_frequency(f, r)

SetJtagFrequency == \E f \in Frequencies, r \in StatusResps : set_jtag_frequency(f, r)

OpenAp == \E apsel \in {0, 1}, r \in StatusResps : call_open_ap(apsel, r)

CloseAp == \E apsel \in {0, 1}, r \in StatusResps : call_close_ap(apsel, r)

NextSTLink ==
    \/ NewFromProbeInfo
    \/ Drop
    \/ Attach
    \/ Detach
    \/ SelectProtocol
    \/ ReadRegister
    \/ WriteRegister
    \/ TargetReset
    \/ GetTargetVoltage
    \/ DriveNreset
    \/ SetSwdFrequency
    \/ SetJtagFrequency
    \/ OpenAp
    \/ CloseAp

SpecSTLink == Init /\ [][NextSTLink]_vars

(***************************************************************************)
(* Properties of the probe                                                 *)
(***************************************************************************)
IsDapAccess == st_ret.op \in {"read_register", "write_register"}

BlanksReturned == st_ret.result.kind = "BlanksNotAllowedOnDPRegister"

LastCommand == usb[Len(usb)]

\* the last command emitted is the DAP command of the access st_ret records
DapCommandIssued ==
    /\ usb # <<>>
    /\ LastCommand[2] = IF st_ret.op = "read_register"
                        THEN "JTAG_READ_DAP_REG" ELSE "JTAG_WRITE_DAP_REG"
    /\ SubSeq(LastCommand, 3, 6) = SubSeq(ReadCommand(st_ret.port, st_ret.addr), 3, 6)

\* the access ended in the selection of the AP, before any DAP command
ApSelectionFailed ==
    /\ st_ret.port.kind = "AccessPort"
    /\ st_ret.result.kind \in {"JTagDoesNotSupportMultipleAP", "USB", "CommandFailed"}
    /\ usb # <<>> => LastCommand[2] \in {"JTAG_INIT_AP", "JTAG_CLOSE_AP_DBG"}

\* C10: read_register and write_register return
\* BlanksNotAllowedOnDPRegister on (DebugPort, addr) with addr & 0xF0 = 0, and
\* on no other combination.
C10_BlanksErrorIffDebugPortAndLowAddress ==
    IsDapAccess =>
        (BlanksReturned <=> (st_ret.port = DebugPort /\ AndF0(st_ret.addr) = 0))

\* What the guard at stlink/mod.rs:130 and 172 does instead: the accesses return
\* BlanksNotAllowedOnDPRegister exactly on (DebugPort, addr) with
\* addr & 0xF0 # 0, emitting no command; on every other combination a DebugPort
\* access issues the DAP command, and an AccessPort access issues it unless the
\* selection of the AP failed.
C10_BlanksErrorIffDebugPortAndBankedAddress ==
    IsDapAccess =>
        /\ BlanksReturned <=> (st_ret.port = DebugPort /\ AndF0(st_ret.addr) # 0)
        /\ BlanksReturned => usb = <<>>
        /\ (~BlanksReturned /\ st_ret.port = DebugPort) =>
                DapCommandIssued /\ Len(usb) = 1
        /\ (~BlanksReturned /\ st_ret.port # DebugPort) =>
                DapCommandIssued \/ ApSelectionFailed

\* a DebugPort read of address 0x10 rejected with the error
C10_Witness_BankedDebugPortReadRejected ==
    /\ st_ret.op = "read_register"
    /\ st_ret.port = DebugPort
    /\ st_ret.addr = 16
    /\ BlanksReturned
    /\ usb = <<>>

(***************************************************************************)
(* AP selection                                                            *)
(***************************************************************************)
DapOps == {"read_register", "write_register"}

InitApCommand(n) == <<"JTAG_COMMAND", "JTAG_INIT_AP", n>>
CloseApCommand(n) == <<"JTAG_COMMAND", "JTAG_CLOSE_AP_DBG", n>>

\* cmd is the DAP command of the access r records
IsDapCommandOf(cmd, r) ==
    /\ cmd[2] = IF r.op = "read_register"
                THEN "JTAG_READ_DAP_REG" ELSE "JTAG_WRITE_DAP_REG"
    /\ SubSeq(cmd, 3, 6) = SubSeq(ReadCommand(r.port, r.addr), 3, 6)

\* the open and close commands the claim expects before the DAP command of an
\* access to port, when ap is the AP of the last AccessPort operation
ExpectedApCommands(ap, port) ==
    IF port.kind # "AccessPort" THEN <<>>
    ELSE IF ~ap.some THEN <<InitApCommand(port.n)>>
    ELSE IF ap.v # port.n THEN <<CloseApCommand(ap.v), InitApCommand(port.n)>>
    ELSE <<>>

\* C11: a successful DAP operation on an AccessPort b emits, before its DAP
\* command, exactly JTAG_CLOSE_AP_DBG(a) then JTAG_INIT_AP(b) when the last
\* AccessPort operation was on another AP a, only JTAG_INIT_AP(b) when there
\* was none, and no open or close when it was on b; a DebugPort operation
\* emits no open or close.  current_ap is the AP of the last successful
\* AccessPort operation: such an operation sets it and a DebugPort operation
\* leaves it.
C11_ApSwitchEmitsOneCloseThenOneOpen ==
    [][(st_ret'.op \in DapOps /\ st_ret'.result = Ok) =>
          LET sel == ExpectedApCommands(current_ap, st_ret'.port)
          IN  /\ Len(usb') = Len(sel) + 1
              /\ SubSeq(usb', 1, Len(sel)) = sel
              /\ IsDapCommandOf(usb'[Len(usb')], st_ret')
              /\ current_ap' = IF st_ret'.port.kind = "AccessPort"
                               THEN SomeAp(st_ret'.port.n) ELSE current_ap]_vars

C11_Witness_SwitchFromAp0ToAp1 ==
    /\ st_ret.op = "read_register"
    /\ st_ret.result = Ok
    /\ usb = <<CloseApCommand(0), InitApCommand(1), ReadCommand(AccessPort(1), 4)>>
    /\ current_ap = SomeAp(1)

\* the APs open on the probe are exactly the one current_ap names
CurrentApIsTheOpenAp ==
    open_aps = IF current_ap.some THEN {AsU8(current_ap.v)} ELSE {}

\* C12: at most one AP is open on the probe and current_ap names exactly that
\* AP (None iff no AP is open); every read_register, write_register, attach
\* and detach call keeps it so, whatever the probe answers, also when
\* JTAG_CLOSE_AP_DBG succeeded and the following JTAG_INIT_AP failed.
C12_CurrentApNamesTheOpenAp ==
    [][(/\ CurrentApIsTheOpenAp
        /\ st_ret'.op \in {"read_register", "write_register", "attach", "detach"})
          => CurrentApIsTheOpenAp']_vars

(***************************************************************************)
(* Construction of a session                                               *)
(***************************************************************************)
Count(seq, x) == Cardinality({i \in DOMAIN seq : seq[i] = x})

\* new_from_probe_info has returned and init has run in it
InitReturned ==
    st_ret.op = "new_from_probe_info" /\ session \in {"open", "failed"} /\ usb # <<>>

\* The commands of init in usb.  After a failed init the commands of Drop's
\* enter_idle follow them: these begin at the last GET_CURRENT_MODE.
LastGetCurrentMode ==
    CHOOSE i \in DOMAIN usb :
        /\ usb[i] = <<"GET_CURRENT_MODE">>
        /\ \A j \in (i + 1)..Len(usb) : usb[j] # <<"GET_CURRENT_MODE">>

InitLength == IF session = "open" THEN Len(usb) ELSE LastGetCurrentMode - 1

InitUsb == SubSeq(usb, 1, InitLength)

\* the number of commands of the enter_idle that starts at position i of usb
EnterIdleLength(i) ==
    IF replies[i].usb_ok /\ replies[i].b \in {0, 3} THEN 2 ELSE 1

\* the outcome of the enter_idle that starts at position i of usb
EnterIdleOutcome(i) ==
    IF ~replies[i].usb_ok THEN "USB"
    ELSE IF replies[i].b \notin 0..3 THEN "UnknownMode"
    ELSE IF EnterIdleLength(i) = 2 /\ ~replies[i + 1].usb_ok THEN "USB"
    ELSE "Ok"

\* C13: when the first enter_idle of init fails with a USB error the device is
\* reset once, right after it, and when that reset succeeds enter_idle is
\* retried once, a failure of the reset or of the retry being returned to the
\* caller; when the first enter_idle fails with another error init returns it
\* with no reset and no retry; when it succeeds there is no reset.  No init
\* resets the device more than once or runs enter_idle more than twice.
C13_InitResetsAndRetriesOnceOnUsbError ==
    InitReturned =>
        LET n == EnterIdleLength(1)
            first == EnterIdleOutcome(1)
        IN  /\ usb[1] = <<"GET_CURRENT_MODE">>
            /\ Count(InitUsb, <<"reset">>) <= 1
            /\ Count(InitUsb, <<"GET_CURRENT_MODE">>) <= 2
            /\ first = "USB" =>
                  /\ Len(InitUsb) > n /\ usb[n + 1] = <<"reset">>
                  /\ Count(InitUsb, <<"reset">>) = 1
                  /\ ~replies[n + 1].usb_ok =>
                        /\ Len(InitUsb) = n + 1
                        /\ st_ret.result = Res("USB")
                  /\ replies[n + 1].usb_ok =>
                        /\ Len(InitUsb) > n + 1
                        /\ usb[n + 2] = <<"GET_CURRENT_MODE">>
                        /\ Count(InitUsb, <<"GET_CURRENT_MODE">>) = 2
                        /\ EnterIdleOutcome(n + 2) # "Ok" =>
                              /\ Len(InitUsb) = n + 1 + EnterIdleLength(n + 2)
                              /\ st_ret.result = Res(EnterIdleOutcome(n + 2))
            /\ first = "UnknownMode" =>
                  /\ InitUsb = << <<"GET_CURRENT_MODE">> >>
                  /\ st_ret.result = Res("UnknownMode")
            /\ first = "Ok" =>
                  /\ Count(InitUsb, <<"reset">>) = 0
                  /\ Count(InitUsb, <<"GET_CURRENT_MODE">>) = 1

C13_Witness_RetryAfterUsbErrorSucceeds ==
    /\ InitReturned
    /\ session = "open"
    /\ EnterIdleOutcome(1) = "USB"
    /\ Count(InitUsb, <<"reset">>) = 1
    /\ Count(InitUsb, <<"GET_CURRENT_MODE">>) = 2

\* GET_VERSION was issued and answered; VersionIndex is its place in usb
VersionAnswered ==
    \E i \in DOMAIN InitUsb : usb[i] = <<"GET_VERSION">> /\ replies[i].usb_ok

VersionIndex == CHOOSE i \in DOMAIN InitUsb : usb[i] = <<"GET_VERSION">>

\* bits 15..12 and bits 11..6 of the GET_VERSION word
VersionHw == (replies[VersionIndex].b \div 4096) % 16
VersionJtag == (replies[VersionIndex].b \div 64) % 64

ExtIssued == Count(InitUsb, <<"GET_VERSION_EXT">>) = 1
ExtAnswered == ExtIssued /\ replies[VersionIndex + 1].usb_ok

\* the negotiation got every answer it asked for
Negotiated == VersionAnswered /\ (VersionHw >= 3 => ExtAnswered)

FinalJtag == IF VersionHw >= 3 THEN replies[VersionIndex + 1].b ELSE VersionJtag

VoltageAsked == Count(InitUsb, <<"GET_TARGET_VOLTAGE">>) = 1

\* C14: after GET_VERSION was answered, GET_VERSION_EXT is issued, right after
\* it, iff hw >= 3, and its byte 2 then replaces jtag.  When the negotiation
\* got its answers the construction fails with JTAGNotSupportedOnProbe iff the
\* final jtag is 0, fails with ProbeFirmwareOutdated iff jtag is not 0 and
\* hw < 3 and jtag < 24, and otherwise goes on to GET_TARGET_VOLTAGE with the
\* two versions stored; no other construction fails with these two errors.
\* In every open session the stored version is an accepted one.
C14_VersionNegotiationAcceptsAndRejects ==
    /\ (InitReturned /\ VersionAnswered) =>
          /\ Count(InitUsb, <<"GET_VERSION">>) = 1
          /\ ExtIssued <=> VersionHw >= 3
          /\ ExtIssued => usb[VersionIndex + 1] = <<"GET_VERSION_EXT">>
          /\ Negotiated =>
                /\ st_ret.result = Res("JTAGNotSupportedOnProbe") <=> FinalJtag = 0
                /\ st_ret.result = Res("ProbeFirmwareOutdated") <=>
                      (FinalJtag # 0 /\ VersionHw < 3 /\ FinalJtag < 24)
                /\ VoltageAsked <=>
                      (FinalJtag # 0 /\ ~(VersionHw < 3 /\ FinalJtag < 24))
                /\ hw_version = VersionHw /\ jtag_version = FinalJtag
    /\ (InitReturned /\ ~(VersionAnswered /\ Negotiated)) =>
          /\ st_ret.result.kind \notin {"JTAGNotSupportedOnProbe", "ProbeFirmwareOutdated"}
          /\ session # "open"
    /\ session = "open" =>
          /\ jtag_version # 0
          /\ ~(hw_version < 3 /\ jtag_version < 24)

C14_Witness_Hw2Jtag28Accepted ==
    /\ InitReturned
    /\ Negotiated
    /\ VersionHw = 2 /\ FinalJtag = 28
    /\ ~ExtIssued
    /\ session = "open"

(***************************************************************************)
(* FlashSector::add_page on its own: a new sector of some geometry, and    *)
(* pages of some geometry added to it one after the other.                 *)
(***************************************************************************)
SectorInfos ==
    {[some |-> TRUE, base_address |-> 0, size |-> sz, page_size |-> ps] :
        sz \in {4, 8}, ps \in {2, 4}}

PageInfos ==
    {[some |-> TRUE, base_address |-> a, size |-> sz] :
        a \in {0, 2, 4, 6}, sz \in {2, 4}}

InitAddPage ==
    /\ flash_write_data = <<>>
    /\ buffered_data_size = 0
    /\ enable_double_buffering = FALSE
    /\ pc = "idle"
    /\ args = NoArgs
    /\ sectors \in {<<FlashSector_new(si)>> : si \in SectorInfos}
    /\ idx = 0
    /\ calls = <<>>
    /\ ret = NoRet
    /\ current_buf = 0
    /\ NoSTLink

\* sectors[1].add_page(FlashPage::new(&pi))
add_page_call(pi) ==
    /\ LET r == add_page(sectors[1], FlashPage_new(pi))
       IN  /\ sectors' = <<r.sector>>
           /\ ret' = [op |-> "add_page",
                      result |-> IF r.ok THEN "Ok" ELSE "FlashBuilder"]
    /\ UNCHANGED <<flash_write_data, buffered_data_size, enable_double_buffering,
                   pc, args, idx, calls>>
    /\ UNCHANGED current_buf
    /\ UNCHANGED stlinkVars

AddPage == \E pi \in PageInfos : add_page_call(pi)

SpecAddPage == InitAddPage /\ [][AddPage]_vars

\* a sector holds at most size / page_size pages, each of the sector's page
\* size, in ascending order of address (add_page accepts an address twice, so
\* two neighbours may be equal)
SectorWellFormed(sector) ==
    /\ Len(sector.pages) <= sector.size \div sector.page_size
    /\ \A i \in DOMAIN sector.pages : sector.pages[i].size = sector.page_size
    /\ \A i \in 1..(Len(sector.pages) - 1) :
          sector.pages[i].address <= sector.pages[i + 1].address

\* every sector at hand is well formed: the sector add_page is called on, and
\* under Spec the sectors of the layout
SectorsWellFormed == \A i \in DOMAIN sectors : SectorWellFormed(sectors[i])

\* the page does not fit the sector: wrong size, or the sector is full
PageRejected(sector, pi) ==
    \/ pi.size # sector.page_size
    \/ Len(sector.pages) >= sector.size \div pi.size

\* C15: no sector ever holds more than size / page_size pages, every page of a
\* sector has the sector's page size, and the pages of a sector are in
\* ascending address order; an add_page whose page has another size or finds
\* the sector full fails with FlashBuilder and leaves the page list as it
\* was, and every other add_page succeeds and adds its page.
C15_SectorsStayWithinCapacity ==
    [][/\ SectorsWellFormed'
       /\ \A pi \in PageInfos :
             add_page_call(pi) =>
                 /\ ret'.result = "FlashBuilder" <=> PageRejected(sectors[1], pi)
                 /\ ret'.result = "FlashBuilder" => sectors' = sectors
                 /\ ret'.result = "Ok" =>
                       /\ Len(sectors'[1].pages) = Len(sectors[1].pages) + 1
                       /\ \E k \in DOMAIN sectors'[1].pages :
                             sectors'[1].pages[k] = FlashPage_new(pi)]_vars

C15_Witness_FullSectorRejectedAPage ==
    /\ ret = [op |-> "add_page", result |-> "FlashBuilder"]
    /\ Len(sectors) = 1
    /\ sectors[1].page_size = 2
    /\ Len(sectors[1].pages) = sectors[1].size \div sectors[1].page_size

(***************************************************************************)
(* Addresses outside the region                                            *)
(***************************************************************************)
\* the writes that hold a byte; the layout walk passes over the others
NonEmptyWrites(ws) == {i \in 1..Len(ws) : Len(ws[i].data) > 0}

\* the first write that holds a byte starts outside the region: the walk
\* starts by asking for the sector of its address and there is none
FirstSectorMissing(ws) ==
    \E i \in NonEmptyWrites(ws) :
        /\ \A j \in NonEmptyWrites(ws) : i <= j
        /\ ~InRegion(ws[i].address)

\* a later write starts outside the region, behind every sector: when the
\* walk gets there it asks for the sector of that address and there is none
LaterSectorMissing(ws) ==
    /\ ValidWrites(ws)
    /\ \E i, j \in NonEmptyWrites(ws) :
          j < i /\ InRegion(ws[j].address) /\ ~InRegion(ws[i].address)

NoEraseOrProgram ==
    \A k \in DOMAIN calls :
        ~(IsEraseSector(calls[k]) \/ IsEraseAll(calls[k]) \/ IsPageHandOver(calls[k]))

ProgramReturned == ret.op = "program"

\* C16: when the layout needs the sector of an address and the geometry has
\* none, for the first sector of the layout as for a later one, program()
\* fails with AddressNotInRegion (unless a device read of fill_page failed
\* before the walk got there) and has issued no erase or program operation.
C16_MissingSectorFailsWithAddressNotInRegion ==
    ProgramReturned =>
        /\ FirstSectorMissing(flash_write_data) =>
              /\ ret.result = "AddressNotInRegion"
              /\ NoEraseOrProgram
        /\ LaterSectorMissing(flash_write_data) =>
              /\ ret.result \in {"AddressNotInRegion", "DeviceError"}
              /\ NoEraseOrProgram

(***************************************************************************)
(* Status bytes                                                            *)
(***************************************************************************)
\* the commands whose answer starts with a status byte
StatusBearing ==
    {"JTAG_ENTER2", "JTAG_READ_DAP_REG", "JTAG_WRITE_DAP_REG", "JTAG_INIT_AP",
     "JTAG_CLOSE_AP_DBG", "JTAG_DRIVE_NRST", "SWD_SET_FREQ", "JTAG_SET_FREQ"}

IsStatusBearing(cmd) == cmd[1] = "JTAG_COMMAND" /\ cmd[2] \in StatusBearing

\* the i-th command of the last operation was answered with a bad status
BadStatusAt(i) ==
    IsStatusBearing(usb[i]) /\ replies[i].usb_ok /\ replies[i].b # JtagOk

\* C17: an operation that received, for a status-bearing command, an answer
\* whose first byte b is not JtagOk stops at that command and fails with
\* CommandFailed(b); an operation succeeds only if every status-bearing
\* command it issued was answered with JtagOk; read_register returns a value
\* only together with success, and then the one of the answer to its
\* READ_DAP_REG command.
C17_BadStatusFailsTheOperation ==
    /\ \A i \in DOMAIN usb :
          BadStatusAt(i) =>
              /\ st_ret.result = CommandFailed(replies[i].b)
              /\ i = Len(usb)
    /\ st_ret.result = Ok =>
          \A i \in DOMAIN usb :
              IsStatusBearing(usb[i]) => replies[i] = Answer(JtagOk)
    /\ st_ret.result.kind = "CommandFailed" =>
          usb # <<>> /\ BadStatusAt(Len(usb)) /\ st_ret.result.code = replies[Len(usb)].b
    /\ st_ret.value.some =>
          /\ st_ret.op = "read_register"
          /\ st_ret.result = Ok
          /\ LastCommand[2] = "JTAG_READ_DAP_REG"
          /\ replies[Len(usb)] = Answer(JtagOk)
          /\ st_ret.value.v \in {pread_u32(d) : d \in DataBytes}
    /\ (st_ret.op = "read_register" /\ st_ret.result = Ok) => st_ret.value.some

C17_Witness_ReadRejectedOnBadStatus ==
    /\ st_ret.op = "read_register"
    /\ st_ret.result = CommandFailed(16)
    /\ LastCommand[2] = "JTAG_READ_DAP_REG"
    /\ replies[Len(usb)] = Answer(16)
    /\ ~st_ret.value.some

(***************************************************************************)
(* Multi-AP support                                                        *)
(***************************************************************************)
\* the last operation opened or closed an AP, or accessed an AccessPort
IsApOperation ==
    \/ st_ret.op \in {"open_ap", "close_ap"}
    \/ st_ret.op \in DapOps /\ st_ret.port.kind = "AccessPort"

MultiApError == st_ret.result = Res("JTagDoesNotSupportMultipleAP")

\* C18: on a probe with hw < 3 and jtag < 28 every open_ap and close_ap, and
\* every read_register and write_register on an AccessPort, fails with
\* JTagDoesNotSupportMultipleAP, emits no USB command and leaves current_ap
\* (always None on such a probe) as it was; on a probe with hw >= 3 or
\* jtag >= 28 no operation returns this error, and no operation other than
\* these returns it on any probe.
C18_NoMultiApProbeRejectsEveryApOperation ==
    session = "open" =>
        /\ (hw_version < 3 /\ jtag_version < 28) =>
              /\ current_ap = NoAp
              /\ open_aps = {}
              /\ IsApOperation => (MultiApError /\ usb = <<>>)
        /\ (hw_version >= 3 \/ jtag_version >= 28) => ~MultiApError
        /\ MultiApError => IsApOperation

C18_Witness_CloseApRejected ==
    /\ session = "open"
    /\ hw_version = 2 /\ jtag_version = 24
    /\ st_ret.op = "close_ap"
    /\ MultiApError
    /\ usb = <<>>

(***************************************************************************)
(* enter_idle and attach                                                   *)
(***************************************************************************)
GetCurrentMode == <<"GET_CURRENT_MODE">>
DfuExit == <<"DFU_COMMAND", "DFU_EXIT">>
SwimExit == <<"SWIM_COMMAND", "SWIM_EXIT">>

\* the last operation was one enter_idle and nothing else
EnterIdleRan == st_ret.op = "detach" \/ (st_ret.op = "drop" /\ session = "dropped")

\* C19: enter_idle issues GET_CURRENT_MODE first; when that is answered it
\* then emits exactly {DFU_COMMAND, DFU_EXIT} iff the mode byte is 0, exactly
\* {SWIM_COMMAND, SWIM_EXIT} iff it is 3, nothing more for the bytes 1 and 2,
\* and for any other byte nothing more, failing with UnknownMode.
C19_EnterIdleExitsDfuAndSwimOnly ==
    EnterIdleRan =>
        /\ usb # <<>> /\ usb[1] = GetCurrentMode
        /\ replies[1].usb_ok =>
              /\ replies[1].b = 0 <=> usb = <<GetCurrentMode, DfuExit>>
              /\ replies[1].b = 3 <=> usb = <<GetCurrentMode, SwimExit>>
              /\ replies[1].b \notin {0, 3} => usb = <<GetCurrentMode>>
              /\ (st_ret.op = "detach" /\ replies[1].b \in {1, 2}) =>
                    st_ret.result = Ok
              /\ st_ret.op = "detach" =>
                    (st_ret.result = Res("UnknownMode") <=> replies[1].b \notin 0..3)
        /\ ~replies[1].usb_ok =>
              /\ usb = <<GetCurrentMode>>
              /\ st_ret.op = "detach" => st_ret.result = Res("USB")

C19_Witness_SwimModeLeft ==
    /\ st_ret.op = "detach"
    /\ st_ret.result = Ok
    /\ replies[1] = Answer(3)
    /\ usb = <<GetCurrentMode, SwimExit>>

\* what the claim expects attach to send for the protocol
ExpectedEnterCommand ==
    <<"JTAG_COMMAND", "JTAG_ENTER2",
      IF protocol = "Swd" THEN "JTAG_ENTER_SWD" ELSE "JTAG_ENTER_JTAG_NO_CORE_RESET",
      0>>

AttachShape ==
    st_ret.op = "attach" =>
        LET n == EnterIdleLength(1)
        IN  /\ usb # <<>> /\ usb[1] = GetCurrentMode
            /\ EnterIdleOutcome(1) # "Ok" =>
                  /\ Len(usb) = n
                  /\ st_ret.result = Res(EnterIdleOutcome(1))
            /\ EnterIdleOutcome(1) = "Ok" =>
                  /\ Len(usb) = n + 1
                  /\ usb[n + 1] = ExpectedEnterCommand
                  /\ st_ret.result = Ok <=> replies[n + 1] = Answer(JtagOk)
            /\ \A i \in DOMAIN usb :
                  (Len(usb[i]) > 1 /\ usb[i][2] = "JTAG_ENTER2") => i = n + 1

\* C20: attach runs enter_idle first and sends {JTAG_COMMAND, JTAG_ENTER2,
\* param, 0} only when enter_idle succeeded, param being JTAG_ENTER_SWD or the
\* JTAG enter code according to the protocol select_protocol chose last (SWD
\* when it chose none); attach succeeds iff JTAG_ENTER2 is answered with
\* JtagOk; select_protocol emits no USB command and is the only operation
\* that changes the protocol.
C20_AttachEntersTheSelectedProtocol ==
    [][/\ AttachShape'
       /\ st_ret'.op = "new_from_probe_info" => protocol' = "Swd"
       /\ \A p \in {"Swd", "Jtag"} :
             select_protocol(p) =>
                 protocol' = p /\ usb' = <<>> /\ st_ret'.result = Ok
       /\ (protocol' # protocol /\ session # "none") =>
             st_ret'.op = "select_protocol"]_vars

C20_Witness_AttachInJtag ==
    /\ st_ret.op = "attach"
    /\ st_ret.result = Ok
    /\ protocol = "Jtag"
    /\ usb = <<GetCurrentMode,
               <<"JTAG_COMMAND", "JTAG_ENTER2", "JTAG_ENTER_JTAG_NO_CORE_RESET", 0>> >>

(***************************************************************************)
(* FlashBuilder::program_double_buffer on its own.  program() calls it only *)
(* when enable_double_buffering is true (builder.rs:215), and builder.rs    *)
(* has no place that sets the field: new() and Default leave it false, so   *)
(* Spec never enters the loop.  SpecDoubleBuffer applies the function to   *)
(* sectors as program() would hand them over: the layout of a list of      *)
(* ascending, non-overlapping writes inside the region, with a page.       *)
(***************************************************************************)
WriteInputs ==
    {FlashWriteData_new(address, DataOf(address, n)) :
        address \in 0..MaxAddr, n \in 0..MaxLen}

WriteListInputs ==
    {ws \in UNION {[1..n -> WriteInputs] : n \in 1..MaxWrites} :
        ValidWrites(ws) /\ AllInRegion(ws)}

SectorInputs ==
    {build_sectors_and_pages(ws, restore, 0).sectors :
        ws \in WriteListInputs, restore \in BOOLEAN}

InitDoubleBuffer ==
    /\ flash_write_data = <<>>
    /\ buffered_data_size = 0
    /\ enable_double_buffering = FALSE
    /\ pc = "load"
    /\ args = NoArgs
    /\ sectors \in {ss \in SectorInputs : pages(ss) # <<>>}
    /\ idx = 1
    /\ calls = <<>>
    /\ ret = NoRet
    /\ current_buf = 0
    /\ NoSTLink

\* the codes wait_for_completion returns: 0, another code, an error
WaitResults == {0, 1, -1}

LoadPageBuffer == \E ok \in BOOLEAN : load_page_buffer(ok)

WaitForCompletion == \E result \in WaitResults : wait_for_completion(result)

StartProgramPageWithBuffer == \E ok \in BOOLEAN : start_program_page_with_buffer(ok)

NextDoubleBuffer ==
    \/ LoadPageBuffer
    \/ WaitForCompletion
    \/ StartProgramPageWithBuffer

SpecDoubleBuffer == InitDoubleBuffer /\ [][NextDoubleBuffer]_vars

(***************************************************************************)
(* program_double_buffer (SpecDoubleBuffer)                                *)
(***************************************************************************)
IsBufferCall(c) ==
    c.op \in {"load_page_buffer", "wait_for_completion",
              "start_program_page_with_buffer"}

\* the calls the double-buffer loop has made so far
BufferCalls == SelectSeq(calls, IsBufferCall)

\* the page the k-th call of the loop is about, and the buffer it is given
PageNumberOf(k) == (k + 2) \div 3
BufferOf(k) == (PageNumberOf(k) - 1) % 2

IsLoadOf(c, page, buf) ==
    /\ c.op = "load_page_buffer"
    /\ c.address = page.address
    /\ c.len = Len(page.data)
    /\ c.buf = buf

IsStartOf(c, page, buf) ==
    /\ c.op = "start_program_page_with_buffer"
    /\ c.address = page.address
    /\ c.buf = buf

IsFailedWait(c) == c.op = "wait_for_completion" /\ c.code # 0

PageHandOvers == SelectSeq(calls, IsPageHandOver)

\* C21: the double-buffer loop calls, page after page in ascending address
\* order, load_page_buffer(page, buf), wait_for_completion and
\* start_program_page_with_buffer(buf, page), with buf 0 for the first page and
\* alternating; a wait that does not return 0 is the last call of the loop and
\* program() returns FlashBuilder; the call after the last start is no wait.
C21_DoubleBufferLoopCallSequence ==
    LET cs == BufferCalls
        ps == pages(sectors)
    IN  /\ Len(cs) <= 3 * Len(ps)
        /\ \A k \in 1..Len(cs) :
              LET page == ps[PageNumberOf(k)]
              IN  /\ k % 3 = 1 => IsLoadOf(cs[k], page, BufferOf(k))
                  /\ k % 3 = 2 => cs[k].op = "wait_for_completion"
                  /\ k % 3 = 0 => IsStartOf(cs[k], page, BufferOf(k))
                  /\ IsFailedWait(cs[k]) =>
                        /\ k = Len(cs)
                        /\ pc = "done"
                        /\ ret = [op |-> "program", result |-> "FlashBuilder"]
        /\ StrictlyAscending(PageHandOvers)
        /\ (cs # <<>> /\ ProgramReturnedOk) =>
              /\ Len(cs) = 3 * Len(ps)
              /\ cs[Len(cs)].op = "start_program_page_with_buffer"

\* three pages went through the loop and a fourth wait returned a non-zero code
C21_Witness_FourthPageWaitFailed ==
    /\ Len(BufferCalls) = 11
    /\ BufferCalls[11].code = 1
    /\ BufferCalls[9].buf = 0
    /\ ret.result = "FlashBuilder"

\* a program() call that went through the loop for three pages and returned Ok
C21_Witness_ThreePagesProgrammed ==
    /\ ProgramReturnedOk
    /\ Len(BufferCalls) = 9

\* A copy from a buffer to the flash is started by
\* start_program_page_with_buffer and is finished once a later
\* wait_for_completion has returned 0.
IsStartFrom(c, buf) == c.op = "start_program_page_with_buffer" /\ c.buf = buf

IsLoadInto(c, buf) == c.op = "load_page_buffer" /\ c.buf = buf

IsCompletedWait(c) == c.op = "wait_for_completion" /\ c.code = 0

\* the copy started by call j of cs is not finished when call k is made
UnfinishedAt(cs, j, k) == \A m \in (j + 1)..(k - 1) : ~IsCompletedWait(cs[m])

\* the buffers a copy is still reading when call k of cs is made
BuffersInFlight(cs, k) ==
    {buf \in {0, 1} : \E j \in 1..(k - 1) :
                          IsStartFrom(cs[j], buf) /\ UnfinishedAt(cs, j, k)}

\* C22: every load_page_buffer goes into a buffer that no unfinished copy
\* reads; the only copy in flight, if any, reads the other buffer.
C22_LoadTargetsTheInactiveBuffer ==
    LET cs == BufferCalls
    IN  \A k \in 1..Len(cs) : \A buf \in {0, 1} :
            IsLoadInto(cs[k], buf) => BuffersInFlight(cs, k) \subseteq {1 - buf}

\* the third page is loaded into buffer 0 while the copy of the second page
\* from buffer 1 is in flight
C22_Witness_ThirdPageLoadedIntoBuffer0 ==
    /\ Len(BufferCalls) >= 7
    /\ IsLoadInto(BufferCalls[7], 0)
    /\ BuffersInFlight(BufferCalls, 7) = {1}

(***************************************************************************)
(* The choice of the program loop (Spec)                                   *)
(***************************************************************************)
IsProgramPage(c) == c.op = "program_page"

ProgramPageCalls == SelectSeq(calls, IsProgramPage)

\* program_page(p.address, p.data) for every page of ps, in order
ProgramPageCallsFor(ps) ==
    [i \in 1..Len(ps) |-> Call("program_page", ps[i].address, ps[i].data)]

\* program() has asked the algorithm and entered one of the two loops
LoopChosen == args.double_buffering_supported # "unread"

DoubleBufferingChosen ==
    args.double_buffering_supported = "supported" /\ enable_double_buffering

InSimpleLoop == pc \in {"program", "done"}

InDoubleBufferLoop == pc \in {"load", "wait", "start", "done"}

\* C23: enable_double_buffering is false unless set; program() runs the
\* double-buffer loop exactly when the algorithm supports double buffering and
\* enable_double_buffering is true; otherwise the simple loop calls
\* program_page(p.address, p.data) once for every page in ascending address
\* order, and neither load_page_buffer nor start_program_page_with_buffer.
C23_LoopChoiceFollowsSupportAndOptIn ==
    /\ ~enable_double_buffering
    /\ ~LoopChosen =>
          /\ ~InSimpleLoop \/ pc = "done"
          /\ ~InDoubleBufferLoop \/ pc = "done"
          /\ BufferCalls = <<>> /\ ProgramPageCalls = <<>>
    /\ (LoopChosen /\ DoubleBufferingChosen) =>
          /\ InDoubleBufferLoop
          /\ ProgramPageCalls = <<>>
    /\ (LoopChosen /\ ~DoubleBufferingChosen) =>
          /\ InSimpleLoop
          /\ BufferCalls = <<>>
          /\ pc = "done" => ProgramPageCalls # <<>>
          /\ IsPrefix(ProgramPageCalls, ProgramPageCallsFor(pages(sectors)))
          /\ StrictlyAscending(ProgramPageCalls)
          /\ ProgramReturnedOk => ProgramPageCalls = ProgramPageCallsFor(pages(sectors))

\* the algorithm supports double buffering, the builder did not opt in, and
\* the simple loop programmed three pages
C23_Witness_SimpleLoopOnSupportingAlgorithm ==
    /\ ~enable_double_buffering
    /\ args.double_buffering_supported = "supported"
    /\ ProgramReturnedOk
    /\ Len(ProgramPageCalls) = 3

(***************************************************************************)
(* The phases of one program() call (Spec)                                 *)
(***************************************************************************)
IsRead(c) == c.op = "read_block8"

IsErase(c) == IsEraseAll(c) \/ IsEraseSector(c)

\* the erase call at position j of calls erases the sector that holds address
ErasesSectorOf(j, address) ==
    \/ IsEraseAll(calls[j])
    \/ /\ IsEraseSector(calls[j])
       /\ InRegion(address)
       /\ calls[j].address = sector_info(address).base_address

\* C24: in one program() call every read_block8 comes before the first erase
\* and every erase before the first program_page or load_page_buffer, and a
\* page is handed over for programming only after the sector that holds it was
\* erased in the same call.
C24_ReadThenEraseThenProgram ==
    \A k \in 1..Len(calls) :
        /\ IsRead(calls[k]) =>
              \A j \in 1..(k - 1) : ~IsErase(calls[j]) /\ ~IsPageHandOver(calls[j])
        /\ IsErase(calls[k]) =>
              \A j \in 1..(k - 1) : ~IsPageHandOver(calls[j])
        /\ IsPageHandOver(calls[k]) =>
              \E j \in 1..(k - 1) : ErasesSectorOf(j, calls[k].address)

\* a program() call that read the device for a page fill, erased two sectors
\* and programmed pages of both sectors
C24_Witness_ReadTwoErasesThenPrograms ==
    /\ ProgramReturnedOk
    /\ SelectSeq(calls, IsRead) # <<>>
    /\ Len(ErasedSectors) = 2
    /\ \E k \in 1..Len(calls) :
          /\ calls[k].op = "program_page"
          /\ calls[k].address >= Region.sector_size

(***************************************************************************)
(* program() stops at the first failing step (Spec)                        *)
(***************************************************************************)
LayoutErrors == {"AddressNotInRegion", "FlashBuilder", "DeviceError"}

\* program() is called and the layout fails
LayoutFails ==
    /\ pc = "idle"
    /\ pc' # "idle"
    /\ flash_write_data # <<>>
    /\ \E f \in 0..MaxReads :
          /\ build_sectors_and_pages(flash_write_data, args'.restore_unwritten_bytes,
                                     f).status \in LayoutErrors
          /\ program_begin(args'.do_chip_erase, args'.restore_unwritten_bytes,
                           args'.has_erase_all, f)

\* erase_all or an erase_sector fails
EraseFails ==
    /\ pc = "erase"
    /\ \E answer \in BOOLEAN : chip_erase(FALSE, answer) \/ sector_erase(FALSE, answer)

\* program_page fails
ProgramPageFails == program_simple(FALSE)

NoPageHandOver == \A k \in DOMAIN calls : ~IsPageHandOver(calls[k])

ReturnedError(kinds) == pc = "done" /\ ret.op = "program" /\ ret.result \in kinds

\* C25: program() returns at the first failing step with that step's error:
\* after a failed layout no erase and no program operation is issued, after a
\* failed erase_all or erase_sector no further erase_sector and no program
\* operation, after a failed program_page no further page; a call that has
\* returned issues no operation.
C25_ProgramStopsAtTheFirstFailure ==
    [][/\ LayoutFails => ReturnedError(LayoutErrors)' /\ NoEraseOrProgram'
       /\ EraseFails => ReturnedError({"DeviceError"})' /\ NoPageHandOver'
       /\ ProgramPageFails => ReturnedError({"DeviceError"})'
       /\ pc = "done" => UNCHANGED <<calls, ret, pc>>]_vars

\* the second erase_sector failed: program() returned its error, no page was
\* handed over
C25_Witness_SecondEraseSectorFailed ==
    /\ ReturnedError({"DeviceError"})
    /\ Len(ErasedSectors) = 2
    /\ IsEraseSector(calls[Len(calls)])
    /\ NoPageHandOver

\* the second program_page failed: program() returned its error with two of
\* three pages handed over
C25_Witness_SecondProgramPageFailed ==
    /\ ReturnedError({"DeviceError"})
    /\ Len(ProgramPageCalls) = 2
    /\ Len(pages(sectors)) = 3

(***************************************************************************)
(* Termination of the layout walk (Spec)                                   *)
(***************************************************************************)
\* the walk of a program() call repeats an iteration that changes nothing
LayoutSpins == pc = "hang"

\* C26: for every builder state that add_data calls can produce, failed calls
\* included, the layout walk of program() terminates: no iteration leaves the
\* sectors, the pages and pos as they were.
C26_LayoutWalkTerminates == ~LayoutSpins

\* the walk terminates whenever the writes are in ascending order and do not
\* overlap
LayoutTerminatesOnValidWrites == ValidWrites(flash_write_data) => ~LayoutSpins

(***************************************************************************)
(* buffered_data_size (Spec)                                               *)
(***************************************************************************)
RECURSIVE SumOfLengths(_)
SumOfLengths(ws) ==
    IF ws = <<>> THEN 0 ELSE Len(Head(ws).data) + SumOfLengths(Tail(ws))

\* C27: after any sequence of add_data calls, successful or failed,
\* buffered_data_size is the sum of the data lengths of the entries in the
\* list of writes.
C27_BufferedSizeIsTheSumOfTheWrites ==
    buffered_data_size = SumOfLengths(flash_write_data)

\* an add_data call failed on an overlap and left its entry in the list; the
\* size counts both entries
C27_Witness_FailedOverlappingAddCounted ==
    /\ pc = "idle"
    /\ ret = [op |-> "add_data", result |-> "FlashBuilder"]
    /\ Len(flash_write_data) = 2
    /\ ~NonOverlapping(flash_write_data)
    /\ buffered_data_size = 5

\* an add_data call failed on a duplicate address and changed neither the list
\* nor the size
C27_Witness_DuplicateAddNotCounted ==
    /\ pc = "idle"
    /\ ret = [op |-> "add_data", result |-> "FlashBuilder"]
    /\ Len(flash_write_data) = 1
    /\ buffered_data_size = 3
====
